---- MODULE Spec2Model ----
(***************************************************************************)
(* GroupChat front-end: the App view resolver (src/App.tsx), the admin     *)
(* decision workflow (AdminDashboard, src/components/AccessRequestForm.tsx)*)
(* and the store they talk to (schema in src/types.ts).                    *)
(*                                                                         *)
(* Every `await` of the source is a point where the handler is suspended:  *)
(* a suspended handler is a task record in tasks[c], and one action runs   *)
(* the code from one await to the next.  The store serves a query at the   *)
(* step that resumes the handler.  A store call ends in one of three ways: *)
(*   "ok"    the call is served, the promise resolves with {data, error:   *)
(*           null};                                                        *)
(*   "err"   the call is not served, the promise resolves with {data:null, *)
(*           error} (what the supabase-js builders do on a network,        *)
(*           permission or validation failure);                            *)
(*   "throw" the call is not served and the promise rejects (a client built*)
(*           to throw, or a fetch layer that does).                        *)
(***************************************************************************)
EXTENDS Integers, Sequences, FiniteSets, TLC

VARIABLES
    roles,            \* public.roles: rows [user_id, role] in insertion order
    access_requests,  \* public.access_requests: rows in created_at order
    profiles,         \* public.profiles: set of Profile rows
    messages,         \* public.messages: rows in insertion order
    session,          \* App: useState session (the session's user id)
    view,             \* App: useState view
    userProfile,      \* App: useState userProfile
    userRole,         \* App: useState userRole
    booted,           \* App: the getSession() promise of the mount effect has resolved
    dash,             \* AdminDashboard: its useState values (as at mount when unmounted)
    resolutions,      \* per client: the suspended determineView calls, in start order
    tasks,            \* per client: the suspended AdminDashboard handlers, in start order
    chat,             \* ChatInterface: its useState values (as at mount when unmounted)
    channels,         \* per client: the realtime channels the client holds
    chatTasks,        \* per client: the suspended ChatInterface handlers, in start order
    handlers,         \* per client: the INSERT callbacks awaiting their profile lookup,
                      \*             in the order their events arrived
    auth,             \* the identity provider and the Auth form: accounts, the
                      \*   identities that have an account; current, per client the
                      \*   identity signed in at the provider; message, per client
                      \*   the form's useState message
    last              \* history: the step that produced the current state

vars == <<roles, access_requests, profiles, messages, session, view, userProfile,
          userRole, booted, dash, resolutions, tasks, chat, channels, chatTasks,
          handlers, auth, last>>

\* what a step that shows no other view leaves alone
chatVars == <<chat, channels, chatTasks, handlers>>

----------------------------------------------------------------------------
(* Bounds and finite domains *)

\* suspended determineView calls per client / suspended AdminDashboard handlers
\* (fetchRequests, fetchAllUsers, handleDecision) per client
MaxResolutions == 1
MaxDashboardTasks == 1

\* suspended fetchMessages / send / upload calls per client
MaxChatTasks == 2

Users == {"u1", "u2"}
Clients == {"c1"}
NoUser == "null"
Outcomes == {"ok", "err", "throw"}

----------------------------------------------------------------------------
(* src/types.ts *)

UserRole == {"admin", "member"}
NoRole == "null"
RequestStatus == {"pending", "approved", "rejected"}
NoStatus == "null"
\* lines 73-80: status is `text not null default 'pending'` with no check
\* constraint: the table holds any text; "other" stands for a text that is none
\* of the three
StoredStatus == RequestStatus \cup {"other"}
AppState == {"loading", "auth", "request", "pending", "rejected", "profile",
             "chat", "admin"}

NullProfile ==
    [id |-> "null", user_id |-> "null", username |-> "", bio |-> "", dp_url |-> ""]

\* Message.type
MessageType == {"text", "image", "audio"}

\* no message
NullMessage ==
    [id |-> 0, sender_id |-> "null", type |-> "", content |-> <<>>, created_at |-> 0,
     profiles |-> NullProfile]

\* a row of public.profiles as CreateProfile inserts it for user u
ProfileRow(u) ==
    [id |-> IF u = "u1" THEN "profile-1" ELSE "profile-2",
     user_id |-> u, username |-> "alex", bio |-> "hi", dp_url |-> ""]

\* the rows of roles with user_id = u (roles.user_id is unique)
RoleRows(u) == SelectSeq(roles, LAMBDA r : r.user_id = u)

\* the store holds exactly one role row for u, with role member
MemberOnly(u) == RoleRows(u) = <<[user_id |-> u, role |-> "member"]>>

\* .from('roles').select('role').eq('user_id', u).eq('role','admin'): the rows
AdminRows(u) == {j \in 1..Len(roles) : roles[j].user_id = u /\ roles[j].role = "admin"}

IsAdmin(u) == AdminRows(u) # {}

\* the rows of access_requests with user_id = u, in table order
RequestsOf(u) == SelectSeq(access_requests, LAMBDA r : r.user_id = u)

\* the status the store holds for u's request, NoStatus when it holds none
StatusOf(u) == IF Len(RequestsOf(u)) = 0 THEN NoStatus ELSE RequestsOf(u)[1].status

\* the status of the request row id, NoStatus when there is no such row
StatusOfRow(id) ==
    LET q == SelectSeq(access_requests, LAMBDA r : r.id = id)
    IN  IF Len(q) = 0 THEN NoStatus ELSE q[1].status

\* .from('profiles').select('*').eq('user_id', u): the rows
ProfilesOf(u) == {p \in profiles : p.user_id = u}

----------------------------------------------------------------------------
(* Suspended handlers *)

\* userId, id, status, tab, rows: the handler's arguments and locals.
\* live: the component instance that started the handler is still mounted
\*       (a setState of an unmounted instance does nothing).
\* History of what the handler's store calls met, kept for the properties:
\* adminAtRead: the store held role admin for userId when the roles query of
\*       a resolution was answered;
\* reqAtRead: the status the store held for userId's request when the
\*       access_requests query was answered;
\* reqData: the status of the row that query returned, NoStatus for null;
\* failed: one of the resolution's queries did not end "ok";
\* ok1, ok2: the decision's status update / role write was served;
\* wasMember: when handleDecision was called the store held status approved
\*       for its request and exactly a member role for its user;
\* solo: no other handleDecision call was in flight during this one;
\* cause: "onProfileCreated" for the resolution CreateProfile asks for;
\* overtaken: a resolution started after this one has already ended, every
\* one of its lookups served.
BaseTask ==
    [kind |-> "", pc |-> "", userId |-> NoUser, id |-> 0, status |-> NoStatus,
     tab |-> "requests", live |-> TRUE, rows |-> <<>>,
     type |-> "", content |-> <<>>, msg |-> NullMessage, cause |-> "",
     adminAtRead |-> FALSE, reqAtRead |-> NoStatus, reqData |-> NoStatus,
     failed |-> FALSE, ok1 |-> FALSE, ok2 |-> FALSE,
     wasMember |-> FALSE, solo |-> TRUE, overtaken |-> FALSE]

RemoveAt(s, i) == [j \in 1..(Len(s) - 1) |-> IF j < i THEN s[j] ELSE s[j + 1]]

ReplaceAt(s, i, t) == [s EXCEPT ![i] = t]

\* The last step, when it ended a handler (a resolution, a decision) or was
\* onEnterChat; BaseLast after any other step.
\* op, c: the handler step and its client.  wasChat: the view was 'chat' before it.
\* userId, id, status, tab: the step's handler arguments.
\* The history fields of the handler's task, and
\* profData: the resolution's profiles query returned a row;
\* alert: the step raised alert("Failed to update user status");
\* live: the handler's component instance was still mounted;
\* msg: the message the step inserted (with id 0: was to insert and did not),
\*       or appended to the displayed sequence;
\* hadProfile: the store held a Profile for the message's sender at the lookup;
\* pendingBefore: the ids of the messages whose events had arrived at the same
\*       mounted instance and were still awaiting their lookup;
\* rows: the chunks of the Blob that onstop handed to uploadAudio.
BaseLast ==
    [op |-> "", c |-> "", wasChat |-> FALSE, userId |-> NoUser,
     adminAtRead |-> FALSE, reqAtRead |-> NoStatus, reqData |-> NoStatus,
     profData |-> FALSE, failed |-> FALSE,
     id |-> 0, status |-> NoStatus, tab |-> "requests",
     ok1 |-> FALSE, ok2 |-> FALSE, wasMember |-> FALSE, solo |-> TRUE,
     alert |-> FALSE, live |-> TRUE, msg |-> NullMessage, hadProfile |-> FALSE,
     pendingBefore |-> {}, cause |-> "", rows |-> <<>>]

Did(op, c) == [BaseLast EXCEPT !.op = op, !.c = c, !.wasChat = (view[c] = "chat")]

\* the end of a determineView call t
Resolved(op, c, t) ==
    [Did(op, c) EXCEPT !.userId = t.userId, !.adminAtRead = t.adminAtRead,
                       !.reqAtRead = t.reqAtRead, !.reqData = t.reqData,
                       !.failed = t.failed, !.cause = t.cause]

\* the end of a handleDecision call t
Decided(op, c, t) ==
    [BaseLast EXCEPT !.op = op, !.c = c, !.userId = t.userId, !.id = t.id,
                     !.status = t.status, !.tab = t.tab, !.ok1 = t.ok1,
                     !.ok2 = t.ok2, !.wasMember = t.wasMember,
                     !.solo = t.solo]

----------------------------------------------------------------------------
(* AdminDashboard: state at mount, and what mounting / unmounting does *)

DashInit ==
    [activeTab |-> "requests", requests |-> <<>>, allUsers |-> <<>>,
     loading |-> FALSE, actionLoading |-> 0]

\* fetchRequests up to its await: setLoading(true), the select is in flight
FetchRequestsTask == [BaseTask EXCEPT !.kind = "fetchRequests", !.pc = "select"]

\* fetchAllUsers up to its first await
FetchAllUsersTask == [BaseTask EXCEPT !.kind = "fetchAllUsers", !.pc = "requests"]

\* the handlers of an unmounted AdminDashboard go on, their setState calls are void
Orphan(ts) == [j \in 1..Len(ts) |-> [ts[j] EXCEPT !.live = FALSE]]

\* ChatInterface, src/components/CreateProfile.tsx lines 125-135: state and
\* refs at mount; audioChunks is audioChunksRef.current
ChatInit ==
    [messages |-> <<>>, newMessage |-> <<>>, loading |-> TRUE, sending |-> FALSE,
     isRecording |-> FALSE, audioChunks |-> <<>>]

\* fetchMessages up to its await (lines 165-170): the select is in flight
FetchMessagesTask == [BaseTask EXCEPT !.kind = "fetchMessages", !.pc = "select"]

\* App.tsx line 183: view === 'chat' && userProfile renders <ChatInterface/>
ChatShown(v, p) == v = "chat" /\ p # NullProfile

\* lines 142-155: supabase.channel(...).on(...).subscribe()
Subscribe(n) == n + 1

\* a cleanup that left the channel in place: C18 tells it from lines 157-159
RemoveChannel_Kept(n) == n

\* lines 157-159: the effect's cleanup, supabase.removeChannel(channel)
RemoveChannel(n) == n - 1

\* What remains to do for the handlers of an unmounted ChatInterface: a send
\* or an upload in flight goes on to write the store, and a recorder that was
\* stopped still delivers its events, which lead to an upload; fetchMessages
\* and the INSERT callbacks only call setState from there on, which is void.
Unmounted(ts) ==
    SelectSeq(Orphan(ts), LAMBDA t : t.kind \in {"handleSendMessage", "MediaRecorder"})

\* setUserProfile(p), setView(v) and the render that follows:
\* App renders <AdminDashboard/> exactly when view = 'admin'; its mount effect
\* runs refreshData(), which on the initial tab is fetchRequests().
\* App renders <ChatInterface/> exactly when ChatShown; its mount effect runs
\* fetchMessages() and subscribes, its cleanup removes the channel.
Render(c, v, p) ==
    /\ view' = [view EXCEPT ![c] = v]
    /\ userProfile' = [userProfile EXCEPT ![c] = p]
    /\ IF view[c] # "admin" /\ v = "admin"
       THEN /\ Len(tasks[c]) < MaxDashboardTasks
            /\ dash' = [dash EXCEPT ![c] = [DashInit EXCEPT !.loading = TRUE]]
            /\ tasks' = [tasks EXCEPT ![c] = Append(@, FetchRequestsTask)]
       ELSE IF view[c] = "admin" /\ v # "admin"
       THEN /\ dash' = [dash EXCEPT ![c] = DashInit]
            /\ tasks' = [tasks EXCEPT ![c] = Orphan(@)]
       ELSE UNCHANGED <<dash, tasks>>
    /\ IF ~ChatShown(view[c], userProfile[c]) /\ ChatShown(v, p)
       THEN /\ Len(chatTasks[c]) < MaxChatTasks
            /\ chat' = [chat EXCEPT ![c] = ChatInit]
            /\ channels' = [channels EXCEPT ![c] = Subscribe(@)]
            /\ chatTasks' = [chatTasks EXCEPT ![c] = Append(@, FetchMessagesTask)]
            /\ UNCHANGED handlers
       ELSE IF ChatShown(view[c], userProfile[c]) /\ ~ChatShown(v, p)
       THEN /\ chat' = [chat EXCEPT ![c] = ChatInit]
            /\ channels' = [channels EXCEPT ![c] = RemoveChannel(@)]
            /\ chatTasks' = [chatTasks EXCEPT ![c] = Unmounted(@)]
            /\ handlers' = [handlers EXCEPT ![c] = <<>>]
       ELSE UNCHANGED chatVars

----------------------------------------------------------------------------
(* src/App.tsx *)

\* maybeSingle(): the row when the call is served and exactly one row matches
MaybeSingle(rows, o) == o = "ok" /\ Cardinality(rows) = 1

\* a resolver whose admin branch did setView('admin'): C6 tells it from line 78
AdminView_Home(prev) == "admin"

\* line 78: setView((prev) => prev === 'chat' ? 'chat' : 'admin')
AdminView(prev) == IF prev = "chat" THEN "chat" ELSE "admin"

\* lines 68-74: the temp profile object for admins without a real profile
AdminTempProfile(userId) ==
    [id |-> "admin-temp", user_id |-> userId, username |-> "Admin",
     bio |-> "System Administrator", dp_url |-> ""]

\* a resolver that showed the pending screen when it finds no request: C5
\* tells it from lines 91-94
RequestView_NoneIsPending(found, status) ==
    IF ~found THEN "pending"
    ELSE IF status = "pending" THEN "pending"
    ELSE IF status = "rejected" THEN "rejected"
    ELSE ""

\* a resolver that let a rejected request through to the profile check: C4
\* tells it from lines 103-106
RequestView_RejectedGoesOn(found, status) ==
    IF ~found THEN "request"
    ELSE IF status = "pending" THEN "pending"
    ELSE ""

\* no setView at all: the resolution returns and the view stays what it is
NoView == "none"

\* lines 91-108: the view for the access request read, "" to go on to the
\* profile check (line 108: status === 'approved'), NoView when no branch is
\* taken
RequestView(found, status) ==
    IF ~found THEN "request"
    ELSE IF status = "pending" THEN "pending"
    ELSE IF status = "rejected" THEN "rejected"
    ELSE IF status = "approved" THEN ""
    ELSE NoView

\* a resolver that entered chat without a profile: C1 tells it from lines 116-121
ProfileView_AlwaysChat(found) == "chat"

\* lines 116-121
ProfileView(found) == IF found THEN "chat" ELSE "profile"

\* a member branch as sticky as the admin branch: C7 tells it from the source
MemberView_Sticky(prev, v) == IF prev = "chat" THEN "chat" ELSE v

\* lines 92, 99, 104, 118, 120: setView('<literal>'), a value and not an updater:
\* the next view whatever the previous one was
MemberView(prev, v) == v

\* a notification handler that started no resolution: C23 tells it from
\* lines 30-32
determineView_Unstarted(n, c, userId, closureView) ==
    /\ Render(c, view[c], userProfile[c])
    /\ resolutions' = resolutions

\* determineView(userId) up to its first await.  closureView is the `view` the
\* calling closure captured: the mount effect's callbacks hold the first
\* render's determineView (view = 'loading'); onSubmitted / onProfileCreated
\* hold the one of the render that showed the form.
determineView_within(n, c, userId, closureView) ==
    /\ Len(resolutions[c]) < n
    /\ Render(c, IF closureView = "auth" THEN "loading" ELSE view[c], userProfile[c])
    /\ resolutions' = [resolutions EXCEPT ![c] =
          Append(@, [BaseTask EXCEPT !.kind = "determineView", !.pc = "role",
                                     !.userId = userId])]

\* determineView with at most MaxResolutions calls of a client in flight
determineView(c, userId, closureView) ==
    determineView_within(MaxResolutions, c, userId, closureView)

\* lines 21-25: supabase.auth.getSession().then(...)
getSession_then(c, s) ==
    /\ ~booted[c]
    /\ booted' = [booted EXCEPT ![c] = TRUE]
    /\ session' = [session EXCEPT ![c] = s]
    /\ IF s # NoUser
       THEN determineView(c, s, "loading")
       ELSE Render(c, "auth", userProfile[c]) /\ UNCHANGED resolutions
    /\ last' = BaseLast
    /\ UNCHANGED <<auth, roles, access_requests, profiles, messages, userRole>>

\* The session-change notifications the identity provider sends a client: a
\* sign-out, a refresh of the session in place, a sign-in when signed out, and a
\* sign-in over another session only from the Auth form (view 'auth').
Notifies(c, s) ==
    \/ s = NoUser
    \/ s = session[c]
    \/ session[c] = NoUser
    \/ view[c] = "auth"

\* lines 30-38: the onAuthStateChange callback, with at most n determineView
\* calls of the client in flight
onAuthStateChange_within(n, c, s) ==
    /\ Notifies(c, s)
    /\ session' = [session EXCEPT ![c] = s]
    /\ IF s # NoUser
       THEN /\ determineView_within(n, c, s, "loading")
            /\ UNCHANGED userRole
       ELSE /\ Render(c, "auth", NullProfile)
            /\ UNCHANGED resolutions
            /\ userRole' = [userRole EXCEPT ![c] = NoRole]
    /\ last' = BaseLast
    /\ UNCHANGED <<auth, roles, access_requests, profiles, messages, booted>>

onAuthStateChange(c, s) == onAuthStateChange_within(MaxResolutions, c, s)

\* The end of the determineView call at position i of a client's calls: it
\* leaves, and when every one of its lookups was served the calls started
\* before it that are still in flight have been overtaken.
Overtake(ts, i, served) ==
    [j \in 1..(Len(ts) - 1) |->
        IF j < i THEN [ts[j] EXCEPT !.overtaken = (@ \/ served)] ELSE ts[j + 1]]

\* lines 123-126: catch -> setView('auth')
determineView_catch(c, i) ==
    /\ Render(c, "auth", userProfile[c])
    /\ resolutions' = [resolutions EXCEPT ![c] = Overtake(@, i, FALSE)]
    /\ last' = Resolved("determineView_catch", c,
                        [resolutions[c][i] EXCEPT !.failed = TRUE])
    /\ UNCHANGED <<session, booted>>

\* lines 49-57, 82: the roles query returns
determineView_role(c, i, o) ==
    LET t == resolutions[c][i]
        roleData == MaybeSingle(AdminRows(t.userId), o)
        t2 == [t EXCEPT !.adminAtRead = IsAdmin(t.userId),
                        !.failed = (o # "ok"),
                        !.pc = IF roleData THEN "adminProfile" ELSE "request"]
    IN  /\ t.pc = "role"
        /\ IF o = "throw"
           THEN /\ determineView_catch(c, i)
                /\ UNCHANGED userRole
           ELSE /\ userRole' = [userRole EXCEPT ![c] =
                                    IF roleData THEN "admin" ELSE "member"]
                /\ resolutions' = [resolutions EXCEPT ![c] = ReplaceAt(@, i, t2)]
                /\ last' = BaseLast
                /\ UNCHANGED <<session, view, userProfile, booted, dash, tasks>>
                /\ UNCHANGED chatVars
        /\ UNCHANGED <<auth, roles, access_requests, profiles, messages>>

\* lines 59-79: the admin's profiles query returns
determineView_adminProfile(c, i, o) ==
    LET t == resolutions[c][i]
        profileData == MaybeSingle(ProfilesOf(t.userId), o)
        t2 == [t EXCEPT !.failed = (t.failed \/ o # "ok")]
    IN  /\ t.pc = "adminProfile"
        /\ IF o = "throw"
           THEN determineView_catch(c, i)
           ELSE /\ Render(c, AdminView(view[c]),
                          IF profileData
                          THEN CHOOSE p \in ProfilesOf(t.userId) : TRUE
                          ELSE AdminTempProfile(t.userId))
                /\ resolutions' = [resolutions EXCEPT ![c] = Overtake(@, i, ~t2.failed)]
                /\ last' = [Resolved("determineView_admin", c, t2) EXCEPT
                                !.profData = profileData]
                /\ UNCHANGED <<session, booted>>
        /\ UNCHANGED <<auth, roles, access_requests, profiles, messages, userRole>>

\* lines 85-108: the access_requests query returns
determineView_request(c, i, o) ==
    LET t == resolutions[c][i]
        rows == RequestsOf(t.userId)
        found == o = "ok" /\ Len(rows) = 1
        status == IF found THEN rows[1].status ELSE NoStatus
        v == RequestView(found, status)
        t2 == [t EXCEPT !.reqAtRead = StatusOf(t.userId), !.reqData = status,
                        !.failed = (t.failed \/ o # "ok")]
    IN  /\ t.pc = "request"
        /\ IF o = "throw"
           THEN determineView_catch(c, i)
           ELSE IF v # ""
           THEN /\ Render(c, IF v = NoView THEN view[c] ELSE MemberView(view[c], v),
                          userProfile[c])
                /\ resolutions' = [resolutions EXCEPT ![c] = Overtake(@, i, ~t2.failed)]
                /\ last' = Resolved("determineView_member", c, t2)
                /\ UNCHANGED <<session, booted>>
           ELSE /\ resolutions' = [resolutions EXCEPT ![c] = ReplaceAt(@, i,
                                [t2 EXCEPT !.pc = "profile"])]
                /\ last' = BaseLast
                /\ UNCHANGED <<session, view, userProfile, booted, dash, tasks>>
                /\ UNCHANGED chatVars
        /\ UNCHANGED <<auth, roles, access_requests, profiles, messages, userRole>>

\* lines 110-121: the approved member's profiles query returns
determineView_profile(c, i, o) ==
    LET t == resolutions[c][i]
        profileData == MaybeSingle(ProfilesOf(t.userId), o)
        t2 == [t EXCEPT !.failed = (t.failed \/ o # "ok")]
    IN  /\ t.pc = "profile"
        /\ IF o = "throw"
           THEN determineView_catch(c, i)
           ELSE /\ Render(c, MemberView(view[c], ProfileView(profileData)),
                          IF profileData
                          THEN CHOOSE p \in ProfilesOf(t.userId) : TRUE
                          ELSE userProfile[c])
                /\ resolutions' = [resolutions EXCEPT ![c] = Overtake(@, i, ~t2.failed)]
                /\ last' = [Resolved("determineView_member", c, t2) EXCEPT
                                !.profData = profileData]
                /\ UNCHANGED <<session, booted>>
        /\ UNCHANGED <<auth, roles, access_requests, profiles, messages, userRole>>

\* line 176: onEnterChat={() => setView('chat')}
onEnterChat(c) ==
    /\ view[c] = "admin"
    /\ Render(c, "chat", userProfile[c])
    /\ last' = Did("onEnterChat", c)
    /\ UNCHANGED <<auth, roles, access_requests, profiles, messages, session,
                   userRole, booted, resolutions>>

\* lines 183-189: onBackToAdmin, offered by the chat view to userRole 'admin'
onBackToAdmin(c) ==
    /\ view[c] = "chat" /\ userProfile[c] # NullProfile
    /\ userRole[c] = "admin"
    /\ Render(c, "admin", userProfile[c])
    /\ last' = BaseLast
    /\ UNCHANGED <<auth, roles, access_requests, profiles, messages, session,
                   userRole, booted, resolutions>>

----------------------------------------------------------------------------
(* AdminDashboard, src/components/AccessRequestForm.tsx lines 89-440 *)

Reverse(q) == [j \in 1..Len(q) |-> q[Len(q) + 1 - j]]

\* lines 127-131: status = 'pending', created_at descending
PendingRows == Reverse(SelectSeq(access_requests, LAMBDA r : r.status = "pending"))

\* lines 144-148: status <> 'pending', created_at descending
DecidedRows == Reverse(SelectSeq(access_requests, LAMBDA r : r.status # "pending"))

\* lines 163-166: each request with the profile found for its user, if any
Merged(requestData, profileData) ==
    [j \in 1..Len(requestData) |->
        [id |-> requestData[j].id, user_id |-> requestData[j].user_id,
         status |-> requestData[j].status,
         profile |-> IF \E p \in profileData : p.user_id = requestData[j].user_id
                     THEN CHOOSE p \in profileData : p.user_id = requestData[j].user_id
                     ELSE NullProfile]]

\* a status update that is acknowledged and not applied: C13 tells it from
\* lines 177-180
UpdateStatus_Skipped(id, status) == access_requests

\* lines 177-180: .update({ status }).eq('id', id)
UpdateStatus(id, status) ==
    [j \in 1..Len(access_requests) |->
        IF access_requests[j].id = id
        THEN [access_requests[j] EXCEPT !.status = status]
        ELSE access_requests[j]]

\* a plain insert in place of the upsert: C9 tells it from lines 186-188
UpsertMember_Insert(userId) == Append(roles, [user_id |-> userId, role |-> "member"])

\* lines 186-188: .upsert([{ user_id, role: 'member' }], { onConflict: 'user_id' })
UpsertMember(userId) ==
    IF Len(RoleRows(userId)) > 0
    THEN [j \in 1..Len(roles) |->
            IF roles[j].user_id = userId
            THEN [roles[j] EXCEPT !.role = "member"] ELSE roles[j]]
    ELSE Append(roles, [user_id |-> userId, role |-> "member"])

\* a reject that left the role in place: C10 tells it from lines 191-194
DeleteRole_Skipped(userId) == roles

\* lines 191-194: .delete().eq('user_id', userId)
DeleteRole(userId) == SelectSeq(roles, LAMBDA r : r.user_id # userId)

\* a refresh that left the decided request in the pending list: C25 tells it
\* from line 199
WithoutRequest_Kept(prev, id) == prev

\* line 199: prev.filter(r => r.id !== id)
WithoutRequest(prev, id) == SelectSeq(prev, LAMBDA r : r.id # id)

\* a setState of the dashboard: void once the instance is unmounted
SetDash(c, t, d) == dash' = [dash EXCEPT ![c] = IF t.live THEN d ELSE @]

\* lines 115-118: refreshData() as called from a mounted dashboard
refreshData(c) ==
    /\ Len(tasks[c]) < MaxDashboardTasks
    /\ dash' = [dash EXCEPT ![c].loading = TRUE]
    /\ tasks' = [tasks EXCEPT ![c] =
          Append(@, IF dash[c].activeTab = "requests"
                    THEN FetchRequestsTask ELSE FetchAllUsersTask)]

\* line 301: the refresh button (disabled while loading)
onRefresh(c) ==
    /\ view[c] = "admin" /\ ~dash[c].loading
    /\ refreshData(c)
    /\ last' = BaseLast
    /\ UNCHANGED <<auth, chat, channels, chatTasks, handlers, messages,
                   roles, access_requests, profiles, session, view, userProfile,
                   userRole, booted, resolutions>>

\* lines 255, 268 and 120-122: a tab button, then the [activeTab] effect
setActiveTab(c, tab) ==
    /\ view[c] = "admin" /\ dash[c].activeTab # tab
    /\ Len(tasks[c]) < MaxDashboardTasks
    /\ dash' = [dash EXCEPT ![c].activeTab = tab, ![c].loading = TRUE]
    /\ tasks' = [tasks EXCEPT ![c] =
          Append(@, IF tab = "requests" THEN FetchRequestsTask ELSE FetchAllUsersTask)]
    /\ last' = BaseLast
    /\ UNCHANGED <<auth, chat, channels, chatTasks, handlers, messages,
                   roles, access_requests, profiles, session, view, userProfile,
                   userRole, booted, resolutions>>

\* lines 125-137: the select of fetchRequests returns
fetchRequests(c, i, o) ==
    LET t == tasks[c][i]
    IN  /\ t.kind = "fetchRequests"
        /\ IF o = "throw"
           THEN dash' = dash
           ELSE SetDash(c, t, [dash[c] EXCEPT
                    !.requests = IF o = "ok" THEN PendingRows ELSE @,
                    !.loading = FALSE])
        /\ tasks' = [tasks EXCEPT ![c] = RemoveAt(@, i)]
        /\ last' = BaseLast
        /\ UNCHANGED <<auth, chat, channels, chatTasks, handlers, messages,
                   roles, access_requests, profiles, session, view,
                       userProfile, userRole, booted, resolutions>>

\* lines 204-209 of handleDecision: catch (alert) and finally
handleDecision_catch(c, i) ==
    LET t == tasks[c][i]
    IN  /\ SetDash(c, t, [dash[c] EXCEPT !.actionLoading = 0])
        /\ tasks' = [tasks EXCEPT ![c] = RemoveAt(@, i)]
        /\ last' = [Decided("handleDecision_catch", c, t) EXCEPT !.alert = TRUE]

\* lines 144-153: the access_requests select of fetchAllUsers returns, in
\* fetchAllUsers called alone or awaited by handleDecision (line 201)
fetchAllUsers_requests(c, i, o) ==
    LET t == tasks[c][i]
    IN  /\ t.kind \in {"fetchAllUsers", "handleDecision"} /\ t.pc = "requests"
        /\ IF o = "ok"
           THEN /\ tasks' = [tasks EXCEPT ![c] = ReplaceAt(@, i,
                                [t EXCEPT !.pc = "profiles", !.rows = DecidedRows])]
                /\ dash' = dash
                /\ last' = BaseLast
           ELSE IF o = "throw" /\ t.kind = "handleDecision"
           THEN handleDecision_catch(c, i)
           ELSE /\ tasks' = [tasks EXCEPT ![c] = RemoveAt(@, i)]
                /\ IF o = "throw"
                   THEN dash' = dash
                   ELSE SetDash(c, t, [dash[c] EXCEPT
                            !.loading = FALSE,
                            !.actionLoading =
                                IF t.kind = "handleDecision" THEN 0 ELSE @])
                /\ last' = IF t.kind = "handleDecision"
                           THEN Decided("handleDecision_done", c, t) ELSE BaseLast
        /\ UNCHANGED <<auth, chat, channels, chatTasks, handlers, messages,
                   roles, access_requests, profiles, session, view,
                       userProfile, userRole, booted, resolutions>>

\* lines 156-169: the profiles select of fetchAllUsers returns
fetchAllUsers_profiles(c, i, o) ==
    LET t == tasks[c][i]
        userIds == {t.rows[j].user_id : j \in 1..Len(t.rows)}
        profileData == IF o = "ok" THEN {p \in profiles : p.user_id \in userIds}
                       ELSE {}
    IN  /\ t.kind \in {"fetchAllUsers", "handleDecision"} /\ t.pc = "profiles"
        /\ IF o = "throw" /\ t.kind = "handleDecision"
           THEN handleDecision_catch(c, i)
           ELSE /\ tasks' = [tasks EXCEPT ![c] = RemoveAt(@, i)]
                /\ IF o = "throw"
                   THEN dash' = dash
                   ELSE SetDash(c, t, [dash[c] EXCEPT
                            !.allUsers = Merged(t.rows, profileData),
                            !.loading = FALSE,
                            !.actionLoading =
                                IF t.kind = "handleDecision" THEN 0 ELSE @])
                /\ last' = IF t.kind = "handleDecision"
                           THEN Decided("handleDecision_done", c, t) ELSE BaseLast
        /\ UNCHANGED <<auth, chat, channels, chatTasks, handlers, messages,
                   roles, access_requests, profiles, session, view,
                       userProfile, userRole, booted, resolutions>>

\* lines 336-349, 408-426: the decision buttons the dashboard offers for a row
Offered(c, id, userId, status) ==
    /\ dash[c].actionLoading # id
    /\ IF dash[c].activeTab = "requests"
       THEN \E k \in 1..Len(dash[c].requests) :
               /\ dash[c].requests[k].id = id
               /\ dash[c].requests[k].user_id = userId
       ELSE /\ ~dash[c].loading
            /\ \E k \in 1..Len(dash[c].allUsers) :
               /\ dash[c].allUsers[k].id = id
               /\ dash[c].allUsers[k].user_id = userId
               /\ status = IF dash[c].allUsers[k].status = "approved"
                           THEN "rejected" ELSE "approved"

\* some handleDecision call is suspended, on any client
DecisionInFlight ==
    \E d \in Clients : \E j \in 1..Len(tasks[d]) : tasks[d][j].kind = "handleDecision"

\* history: the suspended handleDecision calls now overlap with another one
Overlapped(ts) ==
    [j \in 1..Len(ts) |->
        IF ts[j].kind = "handleDecision" THEN [ts[j] EXCEPT !.solo = FALSE] ELSE ts[j]]

\* lines 173-174: handleDecision(id, userId, status) up to its first await,
\* with at most n calls of the dashboard in flight
handleDecision_within(n, c, id, userId, status) ==
    /\ view[c] = "admin"
    /\ Offered(c, id, userId, status)
    /\ Len(tasks[c]) < n
    /\ dash' = [dash EXCEPT ![c].actionLoading = id]
    /\ tasks' = [d \in Clients |->
          IF d # c THEN Overlapped(tasks[d])
          ELSE Append(Overlapped(tasks[d]),
                 [BaseTask EXCEPT !.kind = "handleDecision", !.pc = "update",
                                  !.id = id, !.userId = userId,
                                  !.status = status,
                                  !.tab = dash[c].activeTab,
                                  !.wasMember = (StatusOfRow(id) = "approved"
                                                 /\ MemberOnly(userId)),
                                  !.solo = ~DecisionInFlight])]
    /\ last' = BaseLast
    /\ UNCHANGED <<auth, chat, channels, chatTasks, handlers, messages,
                   roles, access_requests, profiles, session, view, userProfile,
                   userRole, booted, resolutions>>

handleDecision(c, id, userId, status) ==
    handleDecision_within(MaxDashboardTasks, c, id, userId, status)

\* a decision that went on after a failed status update: C8 tells it from line 182
UpdateFailed_Ignored(o) == o = "throw"

\* line 182: if (updateError) throw updateError
UpdateFailed(o) == o # "ok"

\* lines 177-182: the status update returns
handleDecision_update(c, i, o) ==
    LET t == tasks[c][i]
    IN  /\ t.kind = "handleDecision" /\ t.pc = "update"
        /\ access_requests' = IF o = "ok" THEN UpdateStatus(t.id, t.status)
                               ELSE access_requests
        /\ IF UpdateFailed(o)
           THEN handleDecision_catch(c, i)
           ELSE /\ tasks' = [tasks EXCEPT ![c] = ReplaceAt(@, i,
                                [t EXCEPT !.pc = "role", !.ok1 = (o = "ok")])]
                /\ dash' = dash
                /\ last' = BaseLast
        /\ UNCHANGED <<auth, chat, channels, chatTasks, handlers, messages,
                       roles, profiles, session, view, userProfile, userRole,
                       booted, resolutions>>

\* lines 185-202: the role upsert / delete returns, then the local refresh
handleDecision_role(c, i, o) ==
    LET t == tasks[c][i]
        t2 == [t EXCEPT !.ok2 = (o = "ok")]
    IN  /\ t.kind = "handleDecision" /\ t.pc = "role"
        /\ roles' = IF o # "ok" THEN roles
                     ELSE IF t.status = "approved" THEN UpsertMember(t.userId)
                     ELSE DeleteRole(t.userId)
        /\ IF o = "throw"
           THEN handleDecision_catch(c, i)
           ELSE IF t.tab = "requests"
           THEN /\ SetDash(c, t, [dash[c] EXCEPT
                        !.requests = WithoutRequest(@, t.id),
                        !.actionLoading = 0])
                /\ tasks' = [tasks EXCEPT ![c] = RemoveAt(@, i)]
                /\ last' = Decided("handleDecision_done", c, t2)
           ELSE /\ SetDash(c, t, [dash[c] EXCEPT !.loading = TRUE])
                /\ tasks' = [tasks EXCEPT ![c] = ReplaceAt(@, i,
                                [t2 EXCEPT !.pc = "requests"])]
                /\ last' = BaseLast
        /\ UNCHANGED <<chat, channels, chatTasks, handlers, messages,
                       access_requests, profiles, session, view, userProfile,
                       userRole, booted, resolutions, auth>>

----------------------------------------------------------------------------
(* CreateProfile, src/components/CreateProfile.tsx lines 10-111 *)

\* a form that went on to onProfileCreated whatever the insert returned: C11
\* tells it from line 43
InsertFailed_Ignored(o) == o = "throw"

\* line 43: if (dbError) throw dbError (a rejected promise throws by itself)
InsertFailed(o) == o # "ok"

\* lines 16-27 / 16-39: handleSubmit up to its first await, with an avatar file
\* chosen or not (the button is disabled while loading)
handleSubmit(c, file) ==
    /\ view[c] = "profile" /\ session[c] # NoUser
    /\ Len(tasks[c]) < MaxDashboardTasks
    /\ \A j \in 1..Len(tasks[c]) : tasks[c][j].kind # "handleSubmit"
    /\ tasks' = [tasks EXCEPT ![c] =
          Append(@, [BaseTask EXCEPT !.kind = "handleSubmit",
                                     !.pc = IF file THEN "upload" ELSE "insert",
                                     !.userId = session[c]])]
    /\ last' = BaseLast
    /\ UNCHANGED <<auth, roles, access_requests, profiles, messages, session, view,
                   userProfile, userRole, booted, dash, resolutions, chat,
                   channels, chatTasks, handlers>>

\* lines 27-37: the avatar upload returns; lines 45-50 on failure
handleSubmit_upload(c, i, o) ==
    LET t == tasks[c][i]
    IN  /\ t.kind = "handleSubmit" /\ t.pc = "upload"
        /\ IF o = "ok"
           THEN /\ tasks' = [tasks EXCEPT ![c] = ReplaceAt(@, i, [t EXCEPT !.pc = "insert"])]
                /\ last' = BaseLast
           ELSE /\ tasks' = [tasks EXCEPT ![c] = RemoveAt(@, i)]
                /\ last' = [Did("handleSubmit_catch", c) EXCEPT
                               !.userId = t.userId, !.alert = TRUE]
        /\ UNCHANGED <<auth, roles, access_requests, profiles, messages, session, view,
                       userProfile, userRole, booted, dash, resolutions, chat,
                       channels, chatTasks, handlers>>

\* lines 39-50: the profiles insert returns (user_id is unique: a second row
\* for the user is refused); onProfileCreated is line 180 of App.tsx:
\* determineView with the session and the view ('needs-profile', so no
\* setView('loading')) of the render that showed the form
handleSubmit_insert(c, i, o) ==
    LET t == tasks[c][i]
        served == o = "ok" /\ ProfilesOf(t.userId) = {}
    IN  /\ t.kind = "handleSubmit" /\ t.pc = "insert"
        /\ profiles' = IF served THEN profiles \cup {ProfileRow(t.userId)} ELSE profiles
        /\ tasks' = [tasks EXCEPT ![c] = RemoveAt(@, i)]
        /\ IF InsertFailed(IF served THEN "ok" ELSE IF o = "ok" THEN "err" ELSE o)
           THEN /\ last' = [Did("handleSubmit_catch", c) EXCEPT
                               !.userId = t.userId, !.alert = TRUE]
                /\ UNCHANGED <<view, userProfile, dash, resolutions, chat, channels,
                               chatTasks, handlers>>
           ELSE /\ Len(resolutions[c]) < MaxResolutions
                /\ view' = view /\ userProfile' = userProfile
                /\ resolutions' = [resolutions EXCEPT ![c] =
                      Append(@, [BaseTask EXCEPT !.kind = "determineView", !.pc = "role",
                                                 !.userId = t.userId,
                                                 !.cause = "onProfileCreated"])]
                /\ last' = [Did("handleSubmit_done", c) EXCEPT !.userId = t.userId]
                /\ UNCHANGED <<dash, chat, channels, chatTasks, handlers>>
        /\ UNCHANGED <<auth, roles, access_requests, messages, session, userRole, booted>>

----------------------------------------------------------------------------
(* ChatInterface, src/components/CreateProfile.tsx lines 113-382 *)

\* rows of public.messages the store accepts in one run
MaxMessages == 2

\* text is a sequence of characters: a blank and a letter
Chars == {" ", "a"}
MaxDraftLen == 2
Drafts == UNION {[1..n -> Chars] : n \in 0..MaxDraftLen}

RECURSIVE TrimStart(_)
TrimStart(d) == IF d # <<>> /\ Head(d) = " " THEN TrimStart(Tail(d)) ELSE d

RECURSIVE TrimEnd(_)
TrimEnd(d) ==
    IF d # <<>> /\ d[Len(d)] = " " THEN TrimEnd(SubSeq(d, 1, Len(d) - 1)) ELSE d

\* String.prototype.trim()
Trim(d) == TrimEnd(TrimStart(d))

\* a composer that sent whatever is not the empty string: C20 tells it from
\* lines 365 and 372
SendGuard_Untrimmed(d) == d # <<>>

\* lines 365, 372: newMessage.trim() && handleSendMessage('text', newMessage)
SendGuard(d) == Trim(d) # <<>>

\* lines 200-203, 251-254: the public URL of the uploaded object
PublicUrl(type, userId) == <<type, userId>>

\* a row of public.messages (types.ts lines 101-107) as the store inserts it
MessageRow(id, userId, type, content) ==
    [id |-> id, sender_id |-> userId, type |-> type, content |-> content,
     created_at |-> id, profiles |-> NullProfile]

\* .from('profiles').select('*').eq('user_id', u).single(): the row, or null
Single(u, o) ==
    IF o = "ok" /\ Cardinality(ProfilesOf(u)) = 1
    THEN CHOOSE p \in ProfilesOf(u) : TRUE ELSE NullProfile

\* a handler that kept null for a sender without a profile: C15 tells it from
\* line 150
DisplayProfile_Null(data, userId) == data

\* line 150: data || { username: 'Admin', dp_url: null, bio: 'Administrator', ... }
DisplayProfile(data, userId) ==
    IF data # NullProfile THEN data
    ELSE [id |-> "admin", user_id |-> userId, username |-> "Admin",
          bio |-> "Administrator", dp_url |-> "null"]

\* a handler that dropped the event of a sender without a profile: C16 tells it
\* from lines 150-152
Appended_KnownOnly(prev, newMsg, data) ==
    IF data = NullProfile THEN prev
    ELSE Append(prev, [newMsg EXCEPT !.profiles = data])

\* line 152: setMessages((prev) => [...prev, { ...newMsg, profiles: displayProfile }])
Appended(prev, newMsg, data) ==
    Append(prev, [newMsg EXCEPT !.profiles = DisplayProfile(data, newMsg.sender_id)])

\* a fetch that asked for the newest message first: C26 tells it from line 170
MessagesWithProfiles_Descending ==
    Reverse([j \in 1..Len(messages) |->
                [messages[j] EXCEPT !.profiles = Single(messages[j].sender_id, "ok")]])

\* lines 167-170: .from('messages').select('*, profiles(*)').order('created_at')
MessagesWithProfiles ==
    [j \in 1..Len(messages) |->
        [messages[j] EXCEPT !.profiles = Single(messages[j].sender_id, "ok")]]

\* line 305: const senderName = msg.profiles?.username || 'Unknown'
SenderName(msg) ==
    IF msg.profiles # NullProfile /\ msg.profiles.username # ""
    THEN msg.profiles.username ELSE "Unknown"

\* a setState of the chat: void once the instance is unmounted
SetChat(c, t, d) == chat' = [chat EXCEPT ![c] = IF t.live THEN d ELSE @]

\* a send that rendered its own message at once: C19 tells it from lines 186-190
Sent_Optimistic(ch, t, o) ==
    [ch EXCEPT !.messages = Append(@, MessageRow(0, t.userId, t.type, t.content)),
               !.sending = FALSE]

\* lines 186-190: the chat state after the insert of handleSendMessage returned;
\* a rejected promise skips setNewMessage('')
Sent(ch, t, o) ==
    [ch EXCEPT !.newMessage = IF o = "throw" THEN @ ELSE <<>>, !.sending = FALSE]

\* send and upload calls in flight, on any client
SendsInFlight ==
    LET n(d) == Cardinality({j \in 1..Len(chatTasks[d]) :
                                chatTasks[d][j].kind = "handleSendMessage"})
    IN  IF \E d \in Clients : n(d) > 0 THEN 1 ELSE 0

\* line 363: onChange={(e) => setNewMessage(e.target.value)}
setNewMessage(c, d) ==
    /\ ChatShown(view[c], userProfile[c])
    /\ ~chat[c].sending /\ ~chat[c].isRecording
    /\ d # chat[c].newMessage
    /\ chat' = [chat EXCEPT ![c].newMessage = d]
    /\ last' = BaseLast
    /\ UNCHANGED <<auth, roles, access_requests, profiles, messages, session, view,
                   userProfile, userRole, booted, dash, resolutions, tasks,
                   channels, chatTasks, handlers>>

\* lines 178-185: handleSendMessage(type, content) up to its await
StartSend(c, type, content, pc) ==
    /\ Len(chatTasks[c]) < MaxChatTasks
    /\ Len(messages) + SendsInFlight < MaxMessages
    /\ chat' = [chat EXCEPT ![c].sending = TRUE]
    /\ chatTasks' = [chatTasks EXCEPT ![c] =
          Append(@, [BaseTask EXCEPT !.kind = "handleSendMessage", !.pc = pc,
                                     !.userId = session[c], !.type = type,
                                     !.content = content])]
    /\ last' = [Did("handleSendMessage", c) EXCEPT
                    !.msg = MessageRow(0, session[c], type, content)]
    /\ UNCHANGED <<auth, roles, access_requests, profiles, messages, session, view,
                   userProfile, userRole, booted, dash, resolutions, tasks,
                   channels, handlers>>

\* line 365: onKeyDown of the text input (disabled while sending or recording)
onKeyDown(c) ==
    /\ ChatShown(view[c], userProfile[c])
    /\ ~chat[c].sending /\ ~chat[c].isRecording
    /\ SendGuard(chat[c].newMessage)
    /\ StartSend(c, "text", chat[c].newMessage, "insert")

\* lines 371-374: the send button (disabled while sending, recording or blank)
onSendClick(c) ==
    /\ ChatShown(view[c], userProfile[c])
    /\ ~(chat[c].sending \/ Trim(chat[c].newMessage) = <<>> \/ chat[c].isRecording)
    /\ SendGuard(chat[c].newMessage)
    /\ StartSend(c, "text", chat[c].newMessage, "insert")

\* lines 194-200: handleImageUpload with a file chosen, up to the upload's await
handleImageUpload(c) ==
    /\ ChatShown(view[c], userProfile[c])
    /\ ~chat[c].sending
    /\ StartSend(c, "image", PublicUrl("image", session[c]), "upload")

\* sizes of the data a recorder delivers (0: an empty Blob)
ChunkSizes == {0, 1}

\* line 219: audioChunksRef.current = []
NewChunks(prev) == <<>>

\* the recorders that were stopped and have not delivered their events yet are
\* no longer the one in mediaRecorderRef (line 218)
Superseded(ts) ==
    [j \in 1..Len(ts) |->
        IF ts[j].kind = "MediaRecorder" THEN [ts[j] EXCEPT !.solo = FALSE] ELSE ts[j]]

\* lines 214-239: startRecording; getUserMedia grants the microphone ("ok") or
\* rejects, and the catch alerts 'Could not access microphone.'  The button
\* (lines 352-358) is disabled while sending and starts when not recording.
startRecording(c, o) ==
    /\ ChatShown(view[c], userProfile[c])
    /\ ~chat[c].sending /\ ~chat[c].isRecording
    /\ chat' = [chat EXCEPT ![c] =
          IF o = "ok"
          THEN [@ EXCEPT !.isRecording = TRUE, !.audioChunks = NewChunks(@)]
          ELSE @]
    /\ chatTasks' = [chatTasks EXCEPT ![c] = IF o = "ok" THEN Superseded(@) ELSE @]
    /\ last' = IF o = "ok" THEN BaseLast
               ELSE [Did("startRecording_catch", c) EXCEPT !.alert = TRUE]
    /\ UNCHANGED <<auth, roles, access_requests, profiles, messages, session, view,
                   userProfile, userRole, booted, dash, resolutions, tasks,
                   channels, handlers>>

\* lines 241-246: stopRecording (mediaRecorderRef is set whenever isRecording
\* is); MediaRecorder.stop() returns at once and the recorder delivers
\* dataavailable and then stop in a task it queues.  solo: the recorder is the
\* one mediaRecorderRef holds.
stopRecording(c) ==
    /\ ChatShown(view[c], userProfile[c])
    /\ ~chat[c].sending /\ chat[c].isRecording
    /\ Len(chatTasks[c]) < MaxChatTasks
    /\ chat' = [chat EXCEPT ![c].isRecording = FALSE]
    /\ chatTasks' = [chatTasks EXCEPT ![c] =
          Append(@, [BaseTask EXCEPT !.kind = "MediaRecorder", !.pc = "dataavailable",
                                     !.userId = session[c]])]
    /\ last' = BaseLast
    /\ UNCHANGED <<auth, roles, access_requests, profiles, messages, session, view,
                   userProfile, userRole, booted, dash, resolutions, tasks,
                   channels, handlers>>

\* a chunk of size > 0, from the recorder mediaRecorderRef holds (current) or
\* from one started before it
Chunk(current, size) == [current |-> current, size |-> size]

\* lines 221-225: ondataavailable pushes the event's data unless it is empty
ondataavailable(chunks, current, size) ==
    IF size > 0 THEN Append(chunks, Chunk(current, size)) ELSE chunks

\* The task a stopped recorder queues: it fires dataavailable with the data
\* gathered since its start (start() has no timeslice, so this is its one
\* chunk) and then stop.  Lines 227-231, 248-251: onstop makes the Blob of
\* audioChunksRef and runs uploadAudio up to its await.  last.rows is the
\* Blob uploaded by a mounted instance; the refs of an unmounted one are not
\* followed.
onstop(c, i, size) ==
    LET t == chatTasks[c][i]
        chunks == ondataavailable(chat[c].audioChunks, t.solo, size)
    IN  /\ t.kind = "MediaRecorder" /\ t.pc = "dataavailable"
        /\ Len(messages) + SendsInFlight < MaxMessages
        /\ SetChat(c, t, [chat[c] EXCEPT !.audioChunks = chunks, !.sending = TRUE])
        /\ chatTasks' = [chatTasks EXCEPT ![c] = ReplaceAt(@, i,
              [BaseTask EXCEPT !.kind = "handleSendMessage", !.pc = "upload",
                               !.userId = t.userId, !.type = "audio",
                               !.content = PublicUrl("audio", t.userId),
                               !.live = t.live])]
        /\ last' = [Did("onstop", c) EXCEPT
                        !.solo = t.solo, !.ok1 = (size > 0), !.live = t.live,
                        !.rows = IF t.live THEN chunks ELSE <<>>,
                        !.msg = MessageRow(0, t.userId, "audio",
                                           PublicUrl("audio", t.userId))]
        /\ UNCHANGED <<auth, roles, access_requests, profiles, messages, session, view,
                       userProfile, userRole, booted, dash, resolutions, tasks,
                       channels, handlers>>

\* an upload handler that went on to send whatever the upload returned: C22
\* tells it from lines 203 and 253
UploadFailed_Ignored(o) == o = "throw"

\* lines 203, 253: if (error) throw error (a rejected promise throws by itself)
UploadFailed(o) == o # "ok"

\* lines 199-210, 251-260: the storage upload returns
upload(c, i, o) ==
    LET t == chatTasks[c][i]
    IN  /\ t.kind = "handleSendMessage" /\ t.pc = "upload"
        /\ IF ~UploadFailed(o)
           THEN /\ chatTasks' = [chatTasks EXCEPT ![c] = ReplaceAt(@, i,
                                    [t EXCEPT !.pc = "insert", !.ok1 = (o = "ok")])]
                /\ chat' = chat
                /\ last' = BaseLast
           ELSE /\ chatTasks' = [chatTasks EXCEPT ![c] = RemoveAt(@, i)]
                /\ SetChat(c, t, [chat[c] EXCEPT !.sending = FALSE])
                /\ last' = [Did("upload_catch", c) EXCEPT
                                !.live = t.live,
                                !.msg = MessageRow(0, t.userId, t.type, t.content)]
        /\ UNCHANGED <<auth, roles, access_requests, profiles, messages, session, view,
                       userProfile, userRole, booted, dash, resolutions, tasks,
                       channels, handlers>>

\* the INSERT callback of a client's channel, up to its await (lines 143-147)
HandlerTask(row) == [BaseTask EXCEPT !.kind = "onInsert", !.pc = "profile", !.msg = row]

\* lines 180-190: the insert of handleSendMessage returns; the store notifies
\* every client that holds a channel
handleSendMessage_insert(c, i, o) ==
    LET t == chatTasks[c][i]
        row == MessageRow(Len(messages) + 1, t.userId, t.type, t.content)
    IN  /\ t.kind = "handleSendMessage" /\ t.pc = "insert"
        /\ IF o = "ok"
           THEN /\ messages' = Append(messages, row)
                /\ handlers' = [d \in Clients |->
                      IF channels[d] > 0 THEN Append(handlers[d], HandlerTask(row))
                      ELSE handlers[d]]
           ELSE UNCHANGED <<messages, handlers>>
        /\ SetChat(c, t, Sent(chat[c], t, o))
        /\ chatTasks' = [chatTasks EXCEPT ![c] = RemoveAt(@, i)]
        /\ last' = [Did("handleSendMessage_done", c) EXCEPT
                        !.msg = IF o = "ok" THEN row
                                ELSE MessageRow(0, t.userId, t.type, t.content),
                        !.ok1 = (o = "ok"), !.live = t.live,
                        !.alert = FALSE]
        /\ UNCHANGED <<auth, roles, access_requests, profiles, session, view,
                       userProfile, userRole, booted, dash, resolutions, tasks,
                       channels>>

\* lines 143-153: the profile lookup of an INSERT callback returns
onInsert(c, i, o) ==
    LET h == handlers[c][i]
        data == Single(h.msg.sender_id, o)
        next == Appended(chat[c].messages, h.msg, data)
    IN  /\ IF o = "throw"
           THEN chat' = chat
           ELSE SetChat(c, h, [chat[c] EXCEPT !.messages = next])
        /\ handlers' = [handlers EXCEPT ![c] = RemoveAt(@, i)]
        /\ last' = [Did(IF o = "throw" THEN "onInsert_rejected" ELSE "onInsert_done", c)
                      EXCEPT !.msg = h.msg, !.live = h.live,
                             !.hadProfile = (ProfilesOf(h.msg.sender_id) # {}),
                             !.pendingBefore =
                                {handlers[c][j].msg.id : j \in
                                    {k \in 1..(i - 1) : handlers[c][k].live /\ h.live}}]
        /\ UNCHANGED <<auth, roles, access_requests, profiles, messages, session, view,
                       userProfile, userRole, booted, dash, resolutions, tasks,
                       channels, chatTasks>>

\* lines 167-170: the store answers the select of fetchMessages
fetchMessages_select(c, i, o) ==
    LET t == chatTasks[c][i]
    IN  /\ t.kind = "fetchMessages" /\ t.pc = "select"
        /\ chatTasks' = [chatTasks EXCEPT ![c] =
              IF o = "throw" THEN RemoveAt(@, i)
              ELSE ReplaceAt(@, i, [t EXCEPT !.pc = "apply", !.ok1 = (o = "ok"),
                                             !.rows = IF o = "ok"
                                                      THEN MessagesWithProfiles
                                                      ELSE <<>>])]
        /\ last' = BaseLast
        /\ UNCHANGED <<auth, roles, access_requests, profiles, messages, session, view,
                       userProfile, userRole, booted, dash, resolutions, tasks,
                       chat, channels, handlers>>

\* lines 172-175: the answer reaches fetchMessages
fetchMessages(c, i) ==
    LET t == chatTasks[c][i]
    IN  /\ t.kind = "fetchMessages" /\ t.pc = "apply"
        /\ SetChat(c, t, [chat[c] EXCEPT
                            !.messages = IF t.ok1 THEN t.rows ELSE @,
                            !.loading = FALSE])
        /\ chatTasks' = [chatTasks EXCEPT ![c] = RemoveAt(@, i)]
        /\ last' = [Did("fetchMessages_done", c) EXCEPT !.live = t.live, !.ok1 = t.ok1]
        /\ UNCHANGED <<auth, roles, access_requests, profiles, messages, session, view,
                       userProfile, userRole, booted, dash, resolutions, tasks,
                       channels, handlers>>

----------------------------------------------------------------------------
(* The system *)

RequestRow(id, u, st) == [id |-> id, user_id |-> u, status |-> st]

\* The identity provider where every user has an account and client c is
\* signed in as sess[c], and an Auth form that shows no message.  Only the
\* specification of the Auth form follows the provider; the others take its
\* session-change notifications as given.
Provider(sess) ==
    [accounts |-> Users, current |-> sess, message |-> [c \in Clients |-> ""]]

\* The store when the clients start: "u2" holds the seeded admin role; "u1" is
\* at some point of the access-request life cycle, or is an admin as well.
InitStores ==
    LET seed == <<[user_id |-> "u2", role |-> "admin"]>>
        member == <<[user_id |-> "u1", role |-> "member"]>>
        admin1 == <<[user_id |-> "u1", role |-> "admin"]>>
    IN  {<<seed, <<>>>>,
         <<seed, <<RequestRow(1, "u1", "pending")>>>>,
         <<seed \o member, <<RequestRow(1, "u1", "approved")>>>>,
         <<seed, <<RequestRow(1, "u1", "rejected")>>>>}
        \cup {<<seed \o admin1, q>> :
                q \in {<<>>} \cup {<<RequestRow(1, "u1", st)>> : st \in RequestStatus}}

Init ==
    /\ \E st \in InitStores : roles = st[1] /\ access_requests = st[2]
    /\ profiles \in {{}, {ProfileRow(u) : u \in Users}}
    /\ session = [c \in Clients |-> NoUser]
    /\ view = [c \in Clients |-> "loading"]
    /\ userProfile = [c \in Clients |-> NullProfile]
    /\ userRole = [c \in Clients |-> NoRole]
    /\ booted = [c \in Clients |-> FALSE]
    /\ dash = [c \in Clients |-> DashInit]
    /\ resolutions = [c \in Clients |-> <<>>]
    /\ tasks = [c \in Clients |-> <<>>]
    /\ messages = <<>>
    /\ chat = [c \in Clients |-> ChatInit]
    /\ channels = [c \in Clients |-> 0]
    /\ chatTasks = [c \in Clients |-> <<>>]
    /\ handlers = [c \in Clients |-> <<>>]
    /\ auth = Provider(session)
    /\ last = BaseLast

Sessions == Users \cup {NoUser}

Next ==
    \E c \in Clients :
        \/ \E s \in Sessions : getSession_then(c, s)
        \/ \E s \in Sessions : onAuthStateChange(c, s)
        \/ \E i \in 1..Len(resolutions[c]), o \in Outcomes : determineView_role(c, i, o)
        \/ \E i \in 1..Len(resolutions[c]), o \in Outcomes :
              determineView_adminProfile(c, i, o)
        \/ \E i \in 1..Len(resolutions[c]), o \in Outcomes : determineView_request(c, i, o)
        \/ \E i \in 1..Len(resolutions[c]), o \in Outcomes : determineView_profile(c, i, o)
        \/ onEnterChat(c)
        \/ onBackToAdmin(c)
        \/ onRefresh(c)
        \/ \E tab \in {"requests", "users"} : setActiveTab(c, tab)
        \/ \E i \in 1..Len(tasks[c]), o \in Outcomes : fetchRequests(c, i, o)
        \/ \E i \in 1..Len(tasks[c]), o \in Outcomes : fetchAllUsers_requests(c, i, o)
        \/ \E i \in 1..Len(tasks[c]), o \in Outcomes : fetchAllUsers_profiles(c, i, o)
        \/ \E r \in {access_requests[k] : k \in 1..Len(access_requests)},
              st \in {"approved", "rejected"} :
              handleDecision(c, r.id, r.user_id, st)
        \/ \E i \in 1..Len(tasks[c]), o \in Outcomes : handleDecision_update(c, i, o)
        \/ \E i \in 1..Len(tasks[c]), o \in Outcomes : handleDecision_role(c, i, o)
        \/ \E i \in 1..Len(chatTasks[c]), o \in Outcomes : fetchMessages_select(c, i, o)
        \/ \E i \in 1..Len(chatTasks[c]) : fetchMessages(c, i)

Spec == Init /\ [][Next]_vars

\* The life of one access request: "u1" has asked for access and has no
\* Profile yet, "u2" is the seeded admin; the clients run everything above and
\* the CreateProfile form.
ProfileInit ==
    /\ Init
    /\ roles = <<[user_id |-> "u2", role |-> "admin"]>>
    /\ access_requests = <<RequestRow(1, "u1", "pending")>>
    /\ profiles = {}

ProfileNext ==
    \/ Next
    \/ \E c \in Clients :
          \/ \E file \in BOOLEAN : handleSubmit(c, file)
          \/ \E i \in 1..Len(tasks[c]), o \in Outcomes : handleSubmit_upload(c, i, o)
          \/ \E i \in 1..Len(tasks[c]), o \in Outcomes : handleSubmit_insert(c, i, o)

ProfileSpec == ProfileInit /\ [][ProfileNext]_vars

\* The admin at work: the client starts as the seeded admin "u2" on the
\* dashboard it has just mounted; "u1" and two users of other clients, "u3"
\* and "u4", have asked for access.  The admin uses the dashboard.
DecisionInit ==
    /\ roles = <<[user_id |-> "u2", role |-> "admin"]>>
    /\ access_requests = <<RequestRow(1, "u1", "pending"), RequestRow(2, "u3", "pending"),
                           RequestRow(3, "u4", "pending")>>
    /\ profiles = {ProfileRow("u1")}
    /\ messages = <<>>
    /\ session = [c \in Clients |-> "u2"]
    /\ view = [c \in Clients |-> "admin"]
    /\ userProfile = [c \in Clients |-> AdminTempProfile("u2")]
    /\ userRole = [c \in Clients |-> "admin"]
    /\ booted = [c \in Clients |-> TRUE]
    /\ dash = [c \in Clients |-> [DashInit EXCEPT !.loading = TRUE]]
    /\ resolutions = [c \in Clients |-> <<>>]
    /\ tasks = [c \in Clients |-> <<FetchRequestsTask>>]
    /\ chat = [c \in Clients |-> ChatInit]
    /\ channels = [c \in Clients |-> 0]
    /\ chatTasks = [c \in Clients |-> <<>>]
    /\ handlers = [c \in Clients |-> <<>>]
    /\ auth = Provider(session)
    /\ last = BaseLast

DecisionNext ==
    \E c \in Clients :
        \/ onRefresh(c)
        \/ \E tab \in {"requests", "users"} : setActiveTab(c, tab)
        \/ \E i \in 1..Len(tasks[c]), o \in Outcomes : fetchRequests(c, i, o)
        \/ \E i \in 1..Len(tasks[c]), o \in Outcomes : fetchAllUsers_requests(c, i, o)
        \/ \E i \in 1..Len(tasks[c]), o \in Outcomes : fetchAllUsers_profiles(c, i, o)
        \/ \E r \in {access_requests[k] : k \in 1..Len(access_requests)},
              st \in {"approved", "rejected"} :
              handleDecision(c, r.id, r.user_id, st)
        \/ \E i \in 1..Len(tasks[c]), o \in Outcomes : handleDecision_update(c, i, o)
        \/ \E i \in 1..Len(tasks[c]), o \in Outcomes : handleDecision_role(c, i, o)

DecisionSpec == DecisionInit /\ [][DecisionNext]_vars

\* The chat feed: "u1" is an approved member with a Profile, "u2" is the
\* seeded admin and has none.  Each client starts signed in and resolved: as
\* "u1" in the chat it has just mounted, or as "u2" on the dashboard it has
\* just mounted.  It uses the composer, picks images, enters and leaves the
\* chat, signs out.
FeedInit ==
    /\ roles = <<[user_id |-> "u2", role |-> "admin"], [user_id |-> "u1", role |-> "member"]>>
    /\ access_requests = <<RequestRow(1, "u1", "approved")>>
    /\ profiles = {ProfileRow("u1")}
    /\ messages = <<>>
    /\ session \in [Clients -> Users]
    /\ view = [c \in Clients |-> IF session[c] = "u1" THEN "chat" ELSE "admin"]
    /\ userProfile = [c \in Clients |->
          IF session[c] = "u1" THEN ProfileRow("u1") ELSE AdminTempProfile("u2")]
    /\ userRole = [c \in Clients |-> IF session[c] = "u1" THEN "member" ELSE "admin"]
    /\ booted = [c \in Clients |-> TRUE]
    /\ dash = [c \in Clients |->
          IF session[c] = "u1" THEN DashInit ELSE [DashInit EXCEPT !.loading = TRUE]]
    /\ resolutions = [c \in Clients |-> <<>>]
    /\ tasks = [c \in Clients |->
          IF session[c] = "u1" THEN <<>> ELSE <<FetchRequestsTask>>]
    /\ chat = [c \in Clients |-> ChatInit]
    /\ channels = [c \in Clients |-> IF session[c] = "u1" THEN Subscribe(0) ELSE 0]
    /\ chatTasks = [c \in Clients |->
          IF session[c] = "u1" THEN <<FetchMessagesTask>> ELSE <<>>]
    /\ handlers = [c \in Clients |-> <<>>]
    /\ auth = Provider(session)
    /\ last = BaseLast

FeedNext ==
    \E c \in Clients :
        \/ onAuthStateChange(c, NoUser)
        \/ onEnterChat(c)
        \/ onBackToAdmin(c)
        \/ \E i \in 1..Len(tasks[c]), o \in Outcomes : fetchRequests(c, i, o)
        \/ \E i \in 1..Len(chatTasks[c]), o \in Outcomes : fetchMessages_select(c, i, o)
        \/ \E i \in 1..Len(chatTasks[c]) : fetchMessages(c, i)
        \/ \E d \in Drafts : setNewMessage(c, d)
        \/ onKeyDown(c)
        \/ onSendClick(c)
        \/ handleImageUpload(c)
        \/ \E i \in 1..Len(chatTasks[c]), o \in Outcomes : upload(c, i, o)
        \/ \E i \in 1..Len(chatTasks[c]), o \in Outcomes : handleSendMessage_insert(c, i, o)
        \/ \E i \in 1..Len(handlers[c]), o \in Outcomes : onInsert(c, i, o)

FeedSpec == FeedInit /\ [][FeedNext]_vars

\* Media: "u1" in the chat it has just mounted picks images and records audio
\* (and may sign out).
RecordInit ==
    /\ FeedInit
    /\ \A c \in Clients : session[c] = "u1"

RecordNext ==
    \E c \in Clients :
        \/ onAuthStateChange(c, NoUser)
        \/ \E i \in 1..Len(chatTasks[c]), o \in Outcomes : fetchMessages_select(c, i, o)
        \/ \E i \in 1..Len(chatTasks[c]) : fetchMessages(c, i)
        \/ handleImageUpload(c)
        \/ \E o \in {"ok", "throw"} : startRecording(c, o)
        \/ stopRecording(c)
        \/ \E i \in 1..Len(chatTasks[c]), size \in ChunkSizes : onstop(c, i, size)
        \/ \E i \in 1..Len(chatTasks[c]), o \in Outcomes : upload(c, i, o)
        \/ \E i \in 1..Len(chatTasks[c]), o \in Outcomes : handleSendMessage_insert(c, i, o)
        \/ \E i \in 1..Len(handlers[c]), o \in Outcomes : onInsert(c, i, o)

RecordSpec == RecordInit /\ [][RecordNext]_vars

----------------------------------------------------------------------------
(* Auth, src/unnamed/part_000 lines 1-99 *)

\* lines 6-7.  An account is named by the identity the provider gives it: "u2"
\* is the identity of the account of ADMIN_SYSTEM_EMAIL.
ADMIN_SYSTEM_EMAIL == "u2"
ADMIN_PRESET_CODE == "96208088"

\* what is typed into the code field: the preset code or another one
Codes == {ADMIN_PRESET_CODE, "00000000"}

\* src/types.ts lines 159-161, policy roles_manage_admins_only: a write to
\* roles is accepted from a caller that holds the admin role
RolesPolicy(caller) == IsAdmin(caller)

\* lines 50-52: .upsert({ user_id, role: 'admin' }, { onConflict: 'user_id' })
UpsertAdmin(userId) ==
    IF Len(RoleRows(userId)) > 0
    THEN [j \in 1..Len(roles) |->
            IF roles[j].user_id = userId
            THEN [roles[j] EXCEPT !.role = "admin"] ELSE roles[j]]
    ELSE Append(roles, [user_id |-> userId, role |-> "admin"])

\* setMessage(m) of the Auth form of client c, void once it is unmounted
SetMessage(a, c, m) ==
    [a EXCEPT !.message = [@ EXCEPT ![c] = IF view[c] = "auth" THEN m ELSE @]]

\* lines 18-30, 69-71: handleAuth up to its first await (the button is disabled
\* while loading; toggleAdminMode clears isSignUp).  A wrong code throws
\* before any call: lines 28-30, then 87-96.
handleAuth(c, isAdminMode, isSignUp, password) ==
    /\ view[c] = "auth"
    /\ \A j \in 1..Len(tasks[c]) : tasks[c][j].kind # "handleAuth"
    /\ isAdminMode => ~isSignUp
    /\ IF isAdminMode /\ password # ADMIN_PRESET_CODE
       THEN /\ tasks' = tasks
            /\ auth' = SetMessage(auth, c, "Invalid Access Code")
            /\ last' = [Did("handleAuth_catch", c) EXCEPT !.alert = TRUE]
       ELSE /\ Len(tasks[c]) < MaxDashboardTasks
            /\ tasks' = [tasks EXCEPT ![c] =
                  Append(@, [BaseTask EXCEPT
                      !.kind = "handleAuth",
                      !.pc = IF isSignUp THEN "signUp" ELSE "signIn",
                      !.type = IF isAdminMode THEN "admin" ELSE "user",
                      !.userId = IF isAdminMode THEN ADMIN_SYSTEM_EMAIL ELSE "u1"])]
            /\ auth' = SetMessage(auth, c, "")
            /\ last' = [Did("handleAuth", c) EXCEPT
                            !.userId = IF isAdminMode THEN ADMIN_SYSTEM_EMAIL ELSE "u1"]
    /\ UNCHANGED <<roles, access_requests, profiles, messages, session, view,
                   userProfile, userRole, booted, dash, resolutions, chat,
                   channels, chatTasks, handlers>>

\* lines 87-98: catch -> setIsError(true), setMessage(msg); finally
handleAuth_catch(c, i) ==
    /\ tasks' = [tasks EXCEPT ![c] = RemoveAt(@, i)]
    /\ auth' = SetMessage(auth, c, "An error occurred")
    /\ last' = [Did("handleAuth_catch", c) EXCEPT
                    !.userId = tasks[c][i].userId, !.alert = TRUE]

\* lines 33-67, 79-84: signInWithPassword returns.  "ok": the provider answers
\* by its accounts, and signs the client in or reports 'Invalid login
\* credentials', on which the admin flow goes on to create the account.
handleAuth_signIn(c, i, o) ==
    LET t == tasks[c][i]
    IN  /\ t.kind = "handleAuth" /\ t.pc = "signIn"
        /\ IF o = "ok" /\ t.userId \in auth.accounts
           THEN /\ tasks' = [tasks EXCEPT ![c] = RemoveAt(@, i)]
                /\ auth' = [auth EXCEPT !.current = [@ EXCEPT ![c] = t.userId]]
                /\ last' = [Did("handleAuth_done", c) EXCEPT !.userId = t.userId]
           ELSE IF o = "ok" /\ t.type = "admin"
           THEN /\ tasks' = [tasks EXCEPT ![c] = ReplaceAt(@, i, [t EXCEPT !.pc = "signUp"])]
                /\ auth' = auth
                /\ last' = BaseLast
           ELSE handleAuth_catch(c, i)
        /\ UNCHANGED <<roles, access_requests, profiles, messages, session, view,
                       userProfile, userRole, booted, dash, resolutions, chat,
                       channels, chatTasks, handlers>>

\* lines 41-49, 72-78: signUp returns.  "ok": the provider creates the account
\* unless it exists, and signs the client in when it asks for no email
\* confirmation (signedIn).
handleAuth_signUp(c, i, o, signedIn) ==
    LET t == tasks[c][i]
        created == [auth EXCEPT !.accounts = @ \cup {t.userId},
                                !.current = [@ EXCEPT ![c] =
                                                IF signedIn THEN t.userId ELSE @]]
    IN  /\ t.kind = "handleAuth" /\ t.pc = "signUp"
        /\ IF o = "ok" /\ t.userId \notin auth.accounts
           THEN IF t.type = "admin"
                THEN /\ tasks' = [tasks EXCEPT ![c] =
                                     ReplaceAt(@, i, [t EXCEPT !.pc = "role"])]
                     /\ auth' = created
                     /\ last' = BaseLast
                ELSE /\ tasks' = [tasks EXCEPT ![c] = RemoveAt(@, i)]
                     /\ auth' = SetMessage(created, c, "Sign up successful!")
                     /\ last' = [Did("handleAuth_done", c) EXCEPT !.userId = t.userId]
           ELSE handleAuth_catch(c, i)
        /\ UNCHANGED <<roles, access_requests, profiles, messages, session, view,
                       userProfile, userRole, booted, dash, resolutions, chat,
                       channels, chatTasks, handlers>>

\* lines 50-61: the roles upsert returns, sent as the identity the client is
\* signed in as.  Served: window.location.reload() starts the client anew.
\* ok1: the store answered the call; ok2: it wrote the row.
handleAuth_role(c, i, o) ==
    LET t == tasks[c][i]
        served == o = "ok" /\ RolesPolicy(auth.current[c])
        done == [Did("handleAuth_role", c) EXCEPT
                    !.userId = t.userId, !.ok1 = (o = "ok"), !.ok2 = served]
    IN  /\ t.kind = "handleAuth" /\ t.pc = "role"
        /\ IF o = "throw"
           THEN /\ handleAuth_catch(c, i)
                /\ UNCHANGED <<roles, session, view, userProfile, userRole, booted,
                               dash, resolutions, chat, channels, chatTasks, handlers>>
           ELSE IF ~served
           THEN /\ tasks' = [tasks EXCEPT ![c] = RemoveAt(@, i)]
                /\ auth' = SetMessage(auth, c, "System Admin created.")
                /\ last' = [done EXCEPT !.alert = TRUE]
                /\ UNCHANGED <<roles, session, view, userProfile, userRole, booted,
                               dash, resolutions, chat, channels, chatTasks, handlers>>
           ELSE /\ roles' = UpsertAdmin(t.userId)
                /\ session' = [session EXCEPT ![c] = NoUser]
                /\ view' = [view EXCEPT ![c] = "loading"]
                /\ userProfile' = [userProfile EXCEPT ![c] = NullProfile]
                /\ userRole' = [userRole EXCEPT ![c] = NoRole]
                /\ booted' = [booted EXCEPT ![c] = FALSE]
                /\ dash' = [dash EXCEPT ![c] = DashInit]
                /\ resolutions' = [resolutions EXCEPT ![c] = <<>>]
                /\ tasks' = [tasks EXCEPT ![c] = <<>>]
                /\ chat' = [chat EXCEPT ![c] = ChatInit]
                /\ channels' = [channels EXCEPT ![c] = 0]
                /\ chatTasks' = [chatTasks EXCEPT ![c] = <<>>]
                /\ handlers' = [handlers EXCEPT ![c] = <<>>]
                /\ auth' = [auth EXCEPT !.message = [@ EXCEPT ![c] = ""]]
                /\ last' = done
        /\ UNCHANGED <<access_requests, profiles, messages>>

\* supabase.auth.signOut() of the Sign Out buttons (App.tsx lines 156, 169;
\* AccessRequestForm.tsx lines 75, 240; CreateProfile.tsx line 292)
signOut(c) ==
    /\ view[c] \in {"request", "pending", "rejected", "admin"}
          \/ ChatShown(view[c], userProfile[c])
    /\ auth.current[c] # NoUser
    /\ auth' = [auth EXCEPT !.current = [@ EXCEPT ![c] = NoUser]]
    /\ last' = BaseLast
    /\ UNCHANGED <<roles, access_requests, profiles, messages, session, view,
                   userProfile, userRole, booted, dash, resolutions, tasks, chat,
                   channels, chatTasks, handlers>>

\* First use: the store holds no role, no request and no Profile and the
\* provider no account; nobody is signed in.  The client runs the Auth form
\* and the resolver, and it is told of the session changes at the provider.
AuthInit ==
    /\ roles = <<>> /\ access_requests = <<>> /\ profiles = {} /\ messages = <<>>
    /\ session = [c \in Clients |-> NoUser]
    /\ view = [c \in Clients |-> "loading"]
    /\ userProfile = [c \in Clients |-> NullProfile]
    /\ userRole = [c \in Clients |-> NoRole]
    /\ booted = [c \in Clients |-> FALSE]
    /\ dash = [c \in Clients |-> DashInit]
    /\ resolutions = [c \in Clients |-> <<>>]
    /\ tasks = [c \in Clients |-> <<>>]
    /\ chat = [c \in Clients |-> ChatInit]
    /\ channels = [c \in Clients |-> 0]
    /\ chatTasks = [c \in Clients |-> <<>>]
    /\ handlers = [c \in Clients |-> <<>>]
    /\ auth = [accounts |-> {}, current |-> [c \in Clients |-> NoUser],
               message |-> [c \in Clients |-> ""]]
    /\ last = BaseLast

AuthNext ==
    \E c \in Clients :
        \/ getSession_then(c, auth.current[c])
        \/ booted[c] /\ auth.current[c] # session[c]
              /\ onAuthStateChange(c, auth.current[c])
        \/ \E i \in 1..Len(resolutions[c]), o \in Outcomes : determineView_role(c, i, o)
        \/ \E i \in 1..Len(resolutions[c]), o \in Outcomes : determineView_request(c, i, o)
        \/ \E isAdminMode, isSignUp \in BOOLEAN, password \in Codes :
              handleAuth(c, isAdminMode, isSignUp, password)
        \/ \E i \in 1..Len(tasks[c]), o \in Outcomes : handleAuth_signIn(c, i, o)
        \/ \E i \in 1..Len(tasks[c]), o \in Outcomes, signedIn \in BOOLEAN :
              handleAuth_signUp(c, i, o, signedIn)
        \/ \E i \in 1..Len(tasks[c]), o \in Outcomes : handleAuth_role(c, i, o)
        \/ signOut(c)

AuthSpec == AuthInit /\ [][AuthNext]_vars

----------------------------------------------------------------------------
(* AccessRequestForm, src/components/AccessRequestForm.tsx lines 9-87 *)

\* rows of public.access_requests the store accepts in one run
MaxRequests == 2

\* lines 16-22: handleSubmit up to its await.  App.tsx lines 143-148 render the
\* form in view 'request' with userId = session.user.id; the submit button is
\* disabled while loading, that is while a call of this instance is in flight.
AccessRequestForm_handleSubmit(c) ==
    /\ view[c] = "request" /\ session[c] # NoUser
    /\ Len(tasks[c]) < MaxDashboardTasks
    /\ \A j \in 1..Len(tasks[c]) : tasks[c][j].kind # "AccessRequestForm"
    /\ tasks' = [tasks EXCEPT ![c] =
          Append(@, [BaseTask EXCEPT !.kind = "AccessRequestForm", !.pc = "insert",
                                     !.userId = session[c]])]
    /\ last' = BaseLast
    /\ UNCHANGED <<auth, roles, access_requests, profiles, messages, session, view,
                   userProfile, userRole, booted, dash, resolutions, chat,
                   channels, chatTasks, handlers>>

\* lines 22-33: the insert returns.  src/types.ts lines 73-83 and 144-145:
\* access_requests.user_id is not unique, and the insert policy asks only that
\* the row is the caller's own (auth.uid() = user_id).  onSubmitted is line 146
\* of App.tsx: determineView with the session and the view ('request', so no
\* setView('loading')) of the render that showed the form; it is not awaited,
\* and finally { setLoading(false) } enables the button again.
AccessRequestForm_insert(c, i, o) ==
    LET t == tasks[c][i]
        served == o = "ok" /\ session[c] = t.userId
    IN  /\ t.kind = "AccessRequestForm" /\ t.pc = "insert"
        /\ served => Len(access_requests) < MaxRequests
        /\ access_requests' =
              IF served
              THEN Append(access_requests,
                          RequestRow(Len(access_requests) + 1, t.userId, "pending"))
              ELSE access_requests
        /\ tasks' = [tasks EXCEPT ![c] = RemoveAt(@, i)]
        /\ IF ~served
           THEN /\ last' = [Did("AccessRequestForm_catch", c) EXCEPT
                               !.userId = t.userId, !.alert = TRUE]
                /\ UNCHANGED <<view, userProfile, dash, resolutions, chat, channels,
                               chatTasks, handlers>>
           ELSE /\ Len(resolutions[c]) < MaxResolutions
                /\ view' = view /\ userProfile' = userProfile
                /\ resolutions' = [resolutions EXCEPT ![c] =
                      Append(@, [BaseTask EXCEPT !.kind = "determineView", !.pc = "role",
                                                 !.userId = t.userId,
                                                 !.cause = "onSubmitted"])]
                /\ last' = [Did("AccessRequestForm_done", c) EXCEPT !.userId = t.userId]
                /\ UNCHANGED <<dash, chat, channels, chatTasks, handlers>>
        /\ UNCHANGED <<auth, roles, profiles, messages, session, userRole, booted>>

\* Asking for access: the client of "u1", who holds no admin role and is at
\* some point of the access-request life cycle ("u2" is the seeded admin and
\* works elsewhere).  The client runs the resolver, the access request form
\* and, once in the chat, its initial fetch.
RequestInit ==
    /\ Init
    /\ ~IsAdmin("u1")

RequestNext ==
    \E c \in Clients :
        \/ \E s \in {"u1", NoUser} : getSession_then(c, s)
        \/ \E s \in {"u1", NoUser} : onAuthStateChange(c, s)
        \/ \E i \in 1..Len(resolutions[c]), o \in Outcomes : determineView_role(c, i, o)
        \/ \E i \in 1..Len(resolutions[c]), o \in Outcomes : determineView_request(c, i, o)
        \/ \E i \in 1..Len(resolutions[c]), o \in Outcomes : determineView_profile(c, i, o)
        \/ \E i \in 1..Len(chatTasks[c]), o \in Outcomes : fetchMessages_select(c, i, o)
        \/ \E i \in 1..Len(chatTasks[c]) : fetchMessages(c, i)
        \/ AccessRequestForm_handleSubmit(c)
        \/ \E i \in 1..Len(tasks[c]), o \in Outcomes : AccessRequestForm_insert(c, i, o)

RequestSpec == RequestInit /\ [][RequestNext]_vars

\* calls of one handler a client may have in flight at once where overlaps are
\* looked at
MaxOverlap == 2

\* Overlapping resolutions: the client may have MaxOverlap determineView calls
\* in flight, started by the initial session check and by notifications; the
\* initial session check is answered before the first sign-in is notified, and
\* the store is not written to.

OverlapNext ==
    \E c \in Clients :
        \/ \E s \in Sessions : session[c] = NoUser /\ getSession_then(c, s)
        \/ \E s \in Sessions : onAuthStateChange_within(MaxOverlap, c, s)
        \/ \E i \in 1..Len(resolutions[c]), o \in Outcomes : determineView_role(c, i, o)
        \/ \E i \in 1..Len(resolutions[c]), o \in Outcomes :
              determineView_adminProfile(c, i, o)
        \/ \E i \in 1..Len(resolutions[c]), o \in Outcomes : determineView_request(c, i, o)
        \/ \E i \in 1..Len(resolutions[c]), o \in Outcomes : determineView_profile(c, i, o)
        \/ \E i \in 1..Len(tasks[c]), o \in Outcomes : fetchRequests(c, i, o)
        \/ \E i \in 1..Len(chatTasks[c]), o \in Outcomes : fetchMessages_select(c, i, o)
        \/ \E i \in 1..Len(chatTasks[c]) : fetchMessages(c, i)

OverlapSpec == Init /\ [][OverlapNext]_vars

\* Responsiveness: the stores are those of Init, and the request of "u1" may
\* also hold a status that is none of the three.  The identity provider
\* answers the initial session check and the store answers every lookup of a
\* resolution (weak fairness of these steps); notifications come as they may.
LiveInit ==
    /\ roles = <<[user_id |-> "u2", role |-> "admin"]>>
    /\ access_requests \in
          {<<>>} \cup {<<RequestRow(1, "u1", st)>> : st \in StoredStatus}
    /\ profiles \in {{}, {ProfileRow(u) : u \in Users}}
    /\ session = [c \in Clients |-> NoUser]
    /\ view = [c \in Clients |-> "loading"]
    /\ userProfile = [c \in Clients |-> NullProfile]
    /\ userRole = [c \in Clients |-> NoRole]
    /\ booted = [c \in Clients |-> FALSE]
    /\ dash = [c \in Clients |-> DashInit]
    /\ resolutions = [c \in Clients |-> <<>>]
    /\ tasks = [c \in Clients |-> <<>>]
    /\ messages = <<>>
    /\ chat = [c \in Clients |-> ChatInit]
    /\ channels = [c \in Clients |-> 0]
    /\ chatTasks = [c \in Clients |-> <<>>]
    /\ handlers = [c \in Clients |-> <<>>]
    /\ auth = Provider(session)
    /\ last = BaseLast

\* the answer to the initial session check of client c
SessionAnswer(c) == \E s \in Sessions : getSession_then(c, s)

\* the store's answer to the lookup a resolution of client c waits for
LookupAnswer(c) ==
    \E i \in 1..Len(resolutions[c]), o \in Outcomes :
        \/ determineView_role(c, i, o)
        \/ determineView_adminProfile(c, i, o)
        \/ determineView_request(c, i, o)
        \/ determineView_profile(c, i, o)

LiveNext ==
    \E c \in Clients :
        \/ SessionAnswer(c)
        \/ LookupAnswer(c)
        \/ \E s \in Sessions : onAuthStateChange(c, s)
        \/ \E i \in 1..Len(tasks[c]), o \in Outcomes : fetchRequests(c, i, o)
        \/ \E i \in 1..Len(chatTasks[c]), o \in Outcomes : fetchMessages_select(c, i, o)
        \/ \E i \in 1..Len(chatTasks[c]) : fetchMessages(c, i)

LiveSpec ==
    /\ LiveInit /\ [][LiveNext]_vars
    /\ \A c \in Clients : WF_vars(SessionAnswer(c)) /\ WF_vars(LookupAnswer(c))

\* Overlapping decisions: the seeded admin "u2" on the pending list of the
\* dashboard it has just mounted (DecisionInit); MaxOverlap calls of the
\* dashboard may be in flight and the store serves every one.
RaceNext ==
    \E c \in Clients :
        \/ \E i \in 1..Len(tasks[c]) : fetchRequests(c, i, "ok")
        \/ \E r \in {access_requests[k] : k \in 1..Len(access_requests)},
              st \in {"approved", "rejected"} :
              handleDecision_within(MaxOverlap, c, r.id, r.user_id, st)
        \/ \E i \in 1..Len(tasks[c]) : handleDecision_update(c, i, "ok")
        \/ \E i \in 1..Len(tasks[c]) : handleDecision_role(c, i, "ok")

RaceSpec == DecisionInit /\ [][RaceNext]_vars

----------------------------------------------------------------------------
(* Properties.  In all of them a resolution is a determineView call and     *)
(* `last` describes the step that has just ended one: "determineView_admin" *)
(* and "determineView_member" are the ends through setView in the admin or  *)
(* the member branch, "determineView_catch" the end through the catch.      *)

Completed == {"determineView_admin", "determineView_member"}
Ended == Completed \cup {"determineView_catch"}

\* the user holds an approved AccessRequest and a Profile
Entitled(u) == StatusOf(u) = "approved" /\ ProfilesOf(u) # {}

C2_FailureYieldsAuth ==
    (last.op \in Ended /\ last.failed) => view[last.c] = "auth"

\* C3 as stated: for a user the store holds role admin for, a completed
\* resolution yields admin-home or chat, never awaiting-request,
\* pending-review, rejected or needs-profile.
C3_AdminNeverGated ==
    (last.op \in Completed /\ last.adminAtRead) => view[last.c] \in {"admin", "chat"}

C5_NoRecordsYieldsRequest ==
    (last.op \in Completed /\ ~last.adminAtRead /\ last.reqAtRead = NoStatus)
        => view[last.c] = "request"

\* a user with no role row and no request has been shown the request form
C5_Witness ==
    /\ last.op = "determineView_member" /\ ~last.failed
    /\ RoleRows(last.userId) = <<>> /\ last.reqAtRead = NoStatus
    /\ view[last.c] = "request"

\* C6: a resolution that finds role admin yields chat if the view was chat
\* when the result is applied and admin-home otherwise; no end of a
\* resolution moves an admin who is in chat to admin-home.
C6_AdminChatSticky ==
    /\ last.op = "determineView_admin"
          => view[last.c] = IF last.wasChat THEN "chat" ELSE "admin"
    /\ (last.op \in Ended /\ last.wasChat) => view[last.c] # "admin"

\* an admin in chat has been re-resolved and is still in chat
C6_Witness ==
    last.op = "determineView_admin" /\ last.wasChat /\ view[last.c] = "chat"

\* the member branch's view for what its lookups returned
ViewOfReads(reqData, profData) ==
    CASE reqData = NoStatus -> "request"
      [] reqData = "pending" -> "pending"
      [] reqData = "rejected" -> "rejected"
      [] OTHER -> IF profData THEN "chat" ELSE "profile"

\* C7: for a non-admin user the view a resolution produces depends only on
\* what its lookups read, not on the view before; a member in chat whose
\* request is now rejected or pending is moved out of chat.
C7_MemberViewFromReads ==
    /\ last.op = "determineView_member"
          => view[last.c] = ViewOfReads(last.reqData, last.profData)
    /\ (last.op = "determineView_member" /\ last.wasChat
            /\ last.reqAtRead \in {"pending", "rejected"})
          => view[last.c] # "chat"

\* a member in chat whose request had been rejected has been moved to rejected
C7_Witness ==
    /\ last.op = "determineView_member" /\ last.wasChat
    /\ last.reqData = "rejected" /\ view[last.c] = "rejected"

\* C8: when the status update of a decision fails, the workflow aborts: no
\* RoleAssignment is upserted or deleted, the stored statuses are unchanged,
\* and the local pending list and roster are not modified.
C8_UpdateFailureAborts ==
    /\ [](\A c \in Clients : \A j \in 1..Len(tasks[c]) :
            (tasks[c][j].kind = "handleDecision" /\ tasks[c][j].pc # "update")
                => tasks[c][j].ok1)
    /\ [][\A c \in Clients : \A i \in 1..Len(tasks[c]) : \A o \in {"err", "throw"} :
            handleDecision_update(c, i, o)
                => /\ roles' = roles
                   /\ access_requests' = access_requests
                   /\ dash'[c].requests = dash[c].requests
                   /\ dash'[c].allUsers = dash[c].allUsers
                   /\ tasks'[c] = RemoveAt(tasks[c], i)
                   /\ last'.alert]_vars

\* a decision has ended in the catch because its status update failed
C8_Witness ==
    last.op = "handleDecision_catch" /\ ~last.ok1 /\ last.alert

\* C9: an approve decision whose two store steps are served leaves exactly one
\* RoleAssignment for the user, with role member, and status approved; so a
\* second approve, called on what the first one left, changes nothing.  No
\* user ever holds two RoleAssignments.
C9_ApproveIdempotent ==
    /\ \A u \in Users : Len(RoleRows(u)) <= 1
    /\ (last.op = "handleDecision_done" /\ last.status = "approved"
            /\ last.ok1 /\ last.ok2 /\ last.solo)
          => MemberOnly(last.userId) /\ StatusOfRow(last.id) = "approved"

\* an approve of an already approved member has ended, both steps served
C9_Witness ==
    /\ last.op = "handleDecision_done" /\ last.status = "approved"
    /\ last.ok1 /\ last.ok2 /\ last.solo /\ last.wasMember
    /\ MemberOnly(last.userId) /\ StatusOfRow(last.id) = "approved"

\* C10: a reject decision whose two store steps are served leaves no
\* RoleAssignment for the user and status rejected, and a resolution that
\* reads that (no admin role, a rejected request) yields the rejected view.
C10_RejectRevokes ==
    /\ (last.op = "handleDecision_done" /\ last.status = "rejected"
            /\ last.ok1 /\ last.ok2 /\ last.solo)
          => RoleRows(last.userId) = <<>> /\ StatusOfRow(last.id) = "rejected"
    /\ (last.op \in Completed /\ ~last.failed /\ ~last.adminAtRead
            /\ last.reqAtRead = "rejected")
          => view[last.c] = "rejected"

\* the reject of an approved member has ended, both steps served
C10_Witness ==
    /\ last.op = "handleDecision_done" /\ last.status = "rejected"
    /\ last.ok1 /\ last.ok2 /\ last.solo /\ last.wasMember
    /\ RoleRows(last.userId) = <<>> /\ StatusOfRow(last.id) = "rejected"


----------------------------------------------------------------------------
(* The access-request life cycle, the decision's role step, the chat feed   *)

\* C11: a user who is not an admin and whose request is pending is shown
\* pending-review; once the request is approved, a resolution that finds no
\* Profile shows needs-profile; and the resolution CreateProfile asks for after
\* it inserted the Profile shows chat.  Stated of the state a resolution
\* leaves when each of its lookups was served.
C11_RequestLifeCycle ==
    (last.op = "determineView_member" /\ ~last.failed /\ ~last.adminAtRead)
        => /\ last.reqData = "pending" => view[last.c] = "pending"
           /\ (last.reqData = "approved" /\ ~last.profData)
                 => view[last.c] = "profile"
           /\ (last.reqData = "approved" /\ last.cause = "onProfileCreated")
                 => view[last.c] = "chat"

\* "u1", whose request was pending and who had no Profile, is in chat at the
\* end of the resolution its CreateProfile form asked for
C11_Witness ==
    /\ last.op = "determineView_member" /\ last.cause = "onProfileCreated"
    /\ last.userId = "u1" /\ ~last.failed /\ last.reqData = "approved"
    /\ view[last.c] = "chat" /\ userProfile[last.c] = ProfileRow("u1")



DecisionEnded == {"handleDecision_done", "handleDecision_catch"}

\* C12: a decision whose status update was served and whose role upsert or
\* delete then failed ends with the notice "Failed to update user status".
C12_RoleFailureNotified ==
    (last.op \in DecisionEnded /\ last.ok1 /\ ~last.ok2) => last.alert

\* C13: a decision whose status update was served and whose role step then
\* failed leaves the request at the new status: the failing role step writes
\* nothing to access_requests, and when the decision ends (no other decision
\* having run meanwhile) the stored status is the decision's.
C13_StatusKeptOnRoleFailure ==
    /\ [](\A c \in Clients : \A j \in 1..Len(tasks[c]) :
            (tasks[c][j].kind = "handleDecision" /\ tasks[c][j].pc = "role"
                /\ tasks[c][j].solo)
                => StatusOfRow(tasks[c][j].id) = tasks[c][j].status)
    /\ []((last.op \in DecisionEnded /\ last.ok1 /\ ~last.ok2 /\ last.solo)
            => StatusOfRow(last.id) = last.status)
    /\ [][\A c \in Clients : \A i \in 1..Len(tasks[c]) : \A o \in {"err", "throw"} :
            handleDecision_role(c, i, o) => access_requests' = access_requests]_vars

\* an approve of a pending request has ended: the status update was served,
\* the role upsert failed, the request is approved and the user holds no role
C13_Witness ==
    /\ last.op \in DecisionEnded /\ last.ok1 /\ ~last.ok2 /\ last.solo
    /\ last.status = "approved" /\ StatusOfRow(last.id) = "approved"
    /\ RoleRows(last.userId) = <<>>



\* the last message of the sequence client c displays
Newest(c) == chat[c].messages[Len(chat[c].messages)]

\* C14: the messages of insert events are appended in the order the events
\* arrived: when a callback appends its message, no event that arrived before
\* it at the same mounted chat is still waiting for its sender-profile lookup.
C14_AppendedInArrivalOrder ==
    (last.op = "onInsert_done" /\ last.live) => last.pendingBefore = {}

\* C15: a text message submitted with content c is inserted with type text and
\* content c, by the submitting user; its insert event reaches the submitting
\* client's channel; and once the event's callback has run, the message is the
\* newest of the displayed sequence, with the stored type and content and a
\* sender profile that is not null.
C15_TextMessageDisplayed ==
    /\ [][\A c \in Clients : (onKeyDown(c) \/ onSendClick(c))
            => LET t == chatTasks'[c][Len(chatTasks'[c])]
               IN  /\ t.kind = "handleSendMessage" /\ t.pc = "insert"
                   /\ t.type = "text" /\ t.content = chat[c].newMessage
                   /\ t.userId = session[c]]_vars
    /\ [][\A c \in Clients : \A i \in 1..Len(chatTasks[c]) :
            handleSendMessage_insert(c, i, "ok")
            => LET t == chatTasks[c][i]
                   m == messages'[Len(messages')]
               IN  /\ Len(messages') = Len(messages) + 1
                   /\ m.type = t.type /\ m.content = t.content
                   /\ m.sender_id = t.userId
                   /\ t.live => /\ handlers'[c] # <<>>
                                /\ handlers'[c][Len(handlers'[c])].msg = m]_vars
    /\ []((last.op = "onInsert_done" /\ last.live)
            => /\ chat[last.c].messages # <<>>
               /\ last.msg = messages[last.msg.id]
               /\ Newest(last.c).id = last.msg.id
               /\ Newest(last.c).type = last.msg.type
               /\ Newest(last.c).content = last.msg.content
               /\ Newest(last.c).sender_id = last.msg.sender_id
               /\ Newest(last.c).profiles # NullProfile)

\* the client displays the text message " a" that its own user sent
C15_Witness ==
    /\ last.op = "onInsert_done" /\ last.live
    /\ last.msg.type = "text" /\ last.msg.content = <<" ", "a">>
    /\ last.msg.sender_id = session[last.c]
    /\ Newest(last.c).id = last.msg.id /\ Newest(last.c).content = <<" ", "a">>
    /\ Newest(last.c).profiles # NullProfile

\* C16: the callback of an insert event whose sender has no Profile row (its
\* lookup answered, with a row or with an error) appends the message to the
\* displayed sequence with the placeholder identity named 'Admin'; nothing is
\* dropped, no notice is raised, the view stays.
C16_UnknownSenderAppended ==
    [][\A c \in Clients : \A i \in 1..Len(handlers[c]) : \A o \in {"ok", "err"} :
          (onInsert(c, i, o) /\ ProfilesOf(handlers[c][i].msg.sender_id) = {})
          => LET m == handlers[c][i].msg
                 out == chat'[c].messages
             IN  /\ Len(out) = Len(chat[c].messages) + 1
                 /\ SubSeq(out, 1, Len(out) - 1) = chat[c].messages
                 /\ out[Len(out)].id = m.id
                 /\ out[Len(out)].content = m.content
                 /\ out[Len(out)].profiles.username = "Admin"
                 /\ out[Len(out)].profiles.user_id = m.sender_id
                 /\ ~last'.alert /\ view' = view]_vars

\* a message of "u2", who has no Profile, has been appended under 'Admin'
C16_Witness ==
    /\ last.op = "onInsert_done" /\ last.live /\ ~last.hadProfile
    /\ last.msg.sender_id = "u2"
    /\ Newest(last.c).id = last.msg.id
    /\ Newest(last.c).profiles.username = "Admin"

\* C17: the placeholder identity the feed gives a sender without a Profile is
\* the View Resolver's admin placeholder: same id, username, bio and avatar.
C17_SamePlaceholder ==
    (last.op = "onInsert_done" /\ last.live /\ ~last.hadProfile)
        => Newest(last.c).profiles = AdminTempProfile(last.msg.sender_id)

C19_SendLeavesFeed ==
    [][\A c \in Clients :
         /\ (/\ ChatShown(view[c], userProfile[c])
             /\ ChatShown(view'[c], userProfile'[c])
             /\ chat'[c].messages # chat[c].messages)
               => /\ last'.c = c
                  /\ last'.op \in {"fetchMessages_done", "onInsert_done"}
         /\ (\/ onKeyDown(c) \/ onSendClick(c) \/ handleImageUpload(c)
             \/ stopRecording(c)
             \/ \E i \in 1..Len(chatTasks[c]), o \in Outcomes :
                   upload(c, i, o) \/ handleSendMessage_insert(c, i, o))
               => chat'[c].messages = chat[c].messages]_vars

\* a send has ended, its row is stored, its event awaits the lookup, and the
\* displayed sequence does not hold the message
C19_Witness ==
    /\ last.op = "handleSendMessage_done" /\ last.ok1 /\ last.live
    /\ messages[last.msg.id] = last.msg
    /\ \E j \in 1..Len(handlers[last.c]) : handlers[last.c][j].msg = last.msg
    /\ \A k \in 1..Len(chat[last.c].messages) :
          chat[last.c].messages[k].id # last.msg.id

\* C20: a text send is issued only when the composer's content is non-empty
\* after trimming: Enter and the send button start no send on blank content,
\* and no text send in flight and no stored text message has blank content.
C20_NoBlankTextSend ==
    /\ [](/\ \A c \in Clients : \A j \in 1..Len(chatTasks[c]) :
               (chatTasks[c][j].kind = "handleSendMessage"
                   /\ chatTasks[c][j].type = "text")
                   => Trim(chatTasks[c][j].content) # <<>>
          /\ \A k \in 1..Len(messages) :
               messages[k].type = "text" => Trim(messages[k].content) # <<>>)
    /\ [][\A c \in Clients :
            (onKeyDown(c) \/ onSendClick(c)) => Trim(chat[c].newMessage) # <<>>]_vars

\* the store holds the text message " a" and the composer holds two blanks
C20_Witness ==
    /\ \E k \in 1..Len(messages) :
          messages[k].type = "text" /\ messages[k].content = <<" ", "a">>
    /\ \E c \in Clients :
          /\ ChatShown(view[c], userProfile[c])
          /\ chat[c].newMessage = <<" ", " ">>
          /\ ~chat[c].sending /\ ~chat[c].isRecording



----------------------------------------------------------------------------
(* Failures of the send, session changes, the rejected view, the refresh    *)
(* after a decision, the initial fetch                                      *)

\* C21: when the store rejects the insert of a text message, the composer
\* still holds the text the user typed, the sending flag is cleared and a
\* failure notice is raised.
C21_InsertFailureRestores ==
    (last.op = "handleSendMessage_done" /\ ~last.ok1 /\ last.live
        /\ last.msg.type = "text")
        => /\ chat[last.c].newMessage = last.msg.content
           /\ ~chat[last.c].sending
           /\ last.alert

\* C22: a failed upload of an image or audio payload inserts no message,
\* notifies no channel, ends the handler and leaves the sending flag cleared.
C22_UploadFailureSendsNothing ==
    /\ [](\A c \in Clients : \A j \in 1..Len(chatTasks[c]) :
            (chatTasks[c][j].kind = "handleSendMessage"
                /\ chatTasks[c][j].type \in {"image", "audio"}
                /\ chatTasks[c][j].pc = "insert")
                => chatTasks[c][j].ok1)
    /\ [][\A c \in Clients : \A i \in 1..Len(chatTasks[c]) : \A o \in {"err", "throw"} :
            upload(c, i, o)
            => /\ messages' = messages
               /\ handlers' = handlers
               /\ chatTasks'[c] = RemoveAt(chatTasks[c], i)
               /\ chatTasks[c][i].live => ~chat'[c].sending]_vars

\* the upload of a recording has failed: the handler is gone, nothing is
\* stored, the chat is not sending
C22_Witness ==
    /\ last.op = "upload_catch" /\ last.live /\ last.msg.type = "audio"
    /\ ~chat[last.c].sending /\ chatTasks[last.c] = <<>>
    /\ messages = <<>>



\* C23: every session-change notification is handled: one that carries a
\* session stores it and starts a resolution for that session's user; one
\* without a session sets the view to needs-auth and clears the stored
\* profile and role.
C23_NotificationHandled ==
    [][\A c \in Clients : \A s \in Sessions :
          onAuthStateChange(c, s)
          => /\ session'[c] = s
             /\ IF s # NoUser
                THEN /\ Len(resolutions'[c]) = Len(resolutions[c]) + 1
                     /\ resolutions'[c][Len(resolutions'[c])].kind = "determineView"
                     /\ resolutions'[c][Len(resolutions'[c])].pc = "role"
                     /\ resolutions'[c][Len(resolutions'[c])].userId = s
                ELSE /\ view'[c] = "auth"
                     /\ userProfile'[c] = NullProfile
                     /\ userRole'[c] = NoRole
                     /\ resolutions' = resolutions]_vars

\* a sign-out has been handled while the resolution an earlier session
\* started is still in flight
C23_Witness ==
    \E c \in Clients :
        /\ booted[c] /\ session[c] = NoUser /\ view[c] = "auth"
        /\ userProfile[c] = NullProfile /\ userRole[c] = NoRole
        /\ resolutions[c] # <<>> /\ resolutions[c][1].userId \in Users

\* C24 as stated: a client's view leaves rejected only in the handling of a
\* session-change notification (or of the session read at mount), or at the
\* end of a later resolution when the store no longer holds status rejected
\* for that user or the user is an admin.  A resolution that ends in the catch
\* is the fail-safe of C2 and is let through.
C24_RejectedIsTerminal ==
    [][\A c \in Clients :
          (view[c] = "rejected" /\ view'[c] # "rejected")
          => \/ \E s \in Sessions : onAuthStateChange(c, s) \/ getSession_then(c, s)
             \/ last'.op = "determineView_catch" /\ last'.c = c
             \/ /\ last'.op \in Completed /\ last'.c = c
                /\ \/ StatusOf(last'.userId) # "rejected"
                   \/ IsAdmin(last'.userId)]_vars



\* C25: after a decision whose two store steps were served, on the
\* pending-requests tab the decided request leaves the local pending list and
\* every other entry stays, in order (the roster is not touched); on the users
\* tab the roster becomes the answer of a fresh fetch: all requests that are
\* not pending, newest first (the pending list is not touched).
C25_RefreshByTab ==
    /\ [][\A c \in Clients : \A i \in 1..Len(tasks[c]) :
            (handleDecision_role(c, i, "ok") /\ tasks[c][i].tab = "requests"
                /\ tasks[c][i].live)
            => /\ dash'[c].requests =
                    SelectSeq(dash[c].requests, LAMBDA r : r.id # tasks[c][i].id)
               /\ dash'[c].allUsers = dash[c].allUsers]_vars
    /\ [][\A c \in Clients : \A i \in 1..Len(tasks[c]) :
            (handleDecision_role(c, i, "ok") /\ tasks[c][i].tab = "users")
            => /\ tasks'[c][i].kind = "handleDecision"
               /\ tasks'[c][i].pc = "requests"]_vars
    /\ [][\A c \in Clients : \A i \in 1..Len(tasks[c]) :
            (fetchAllUsers_requests(c, i, "ok") /\ tasks[c][i].kind = "handleDecision")
            => tasks'[c][i].rows =
                  Reverse(SelectSeq(access_requests, LAMBDA r : r.status # "pending"))]_vars
    /\ [][\A c \in Clients : \A i \in 1..Len(tasks[c]) : \A o \in {"ok", "err"} :
            (fetchAllUsers_profiles(c, i, o) /\ tasks[c][i].kind = "handleDecision"
                /\ tasks[c][i].live)
            => LET rows == tasks[c][i].rows
                   out == dash'[c].allUsers
               IN  /\ Len(out) = Len(rows)
                   /\ \A j \in 1..Len(rows) :
                         /\ out[j].id = rows[j].id
                         /\ out[j].user_id = rows[j].user_id
                         /\ out[j].status = rows[j].status
                   /\ dash'[c].requests = dash[c].requests]_vars

\* the admin has approved request 2 of the pending list 3, 2, 1: the list
\* shown is 3, 1
C25_Witness ==
    /\ last.op = "handleDecision_done" /\ last.tab = "requests"
    /\ last.ok1 /\ last.ok2 /\ last.id = 2 /\ last.status = "approved"
    /\ view[last.c] = "admin"
    /\ dash[last.c].requests = <<RequestRow(3, "u4", "pending"), RequestRow(1, "u1", "pending")>>



\* C26: the answer of a served initial fetch is every message the store holds
\* at that time, oldest first, and applying it makes it the displayed
\* sequence and clears the loading flag; a fetch that fails (the select
\* resolves with an error) leaves the displayed sequence as it is and clears
\* the loading flag.
C26_InitialFetch ==
    /\ [][\A c \in Clients : \A i \in 1..Len(chatTasks[c]) :
            fetchMessages_select(c, i, "ok")
            => LET rows == chatTasks'[c][i].rows
               IN  /\ Len(rows) = Len(messages)
                   /\ \A j \in 1..Len(rows) :
                         /\ rows[j].id = messages[j].id
                         /\ rows[j].sender_id = messages[j].sender_id
                         /\ rows[j].type = messages[j].type
                         /\ rows[j].content = messages[j].content
                   /\ \A j, k \in 1..Len(rows) :
                         j < k => rows[j].created_at <= rows[k].created_at]_vars
    /\ [][\A c \in Clients : \A i \in 1..Len(chatTasks[c]) :
            (fetchMessages(c, i) /\ chatTasks[c][i].live)
            => /\ ~chat'[c].loading
               /\ chat'[c].messages = IF chatTasks[c][i].ok1
                                      THEN chatTasks[c][i].rows
                                      ELSE chat[c].messages]_vars

\* a chat mounted over a store of two messages displays them, oldest first
C26_Witness ==
    /\ last.op = "fetchMessages_done" /\ last.ok1 /\ last.live
    /\ Len(messages) = 2 /\ Len(chat[last.c].messages) = 2
    /\ chat[last.c].messages[1].id = 1 /\ chat[last.c].messages[2].id = 2
    /\ ~chat[last.c].loading



\* C27: the store holds at most one AccessRequest per user, whatever the
\* sign-ins, resolutions and request submissions before.
C27_OneRequestPerUser ==
    \A u \in Users : Len(RequestsOf(u)) <= 1



\* C28: whenever the view is chat the client holds a non-null profile, and it
\* is the profile of the current user (the user of the client's session): a
\* stored Profile of that user or the placeholder made for that admin.
C28_ChatHasProfileOfCurrentUser ==
    \A c \in Clients :
        view[c] = "chat"
        => /\ userProfile[c] # NullProfile
           /\ userProfile[c].user_id = session[c]



\* C29: the upload that the stop of a recording leads to carries exactly the
\* non-empty chunks its recorder delivered since its start, in arrival order,
\* and no chunk of an earlier recording.
C29_UploadIsThisRecording ==
    (last.op = "onstop" /\ last.live)
        => last.rows = IF last.ok1 THEN <<Chunk(last.solo, 1)>> ELSE <<>>


\* C30: when the store has answered the role upsert of the admin bootstrap
\* (right code, no admin account before, account signed up), the admin account
\* holds the admin role.
C30_BootstrapAssignsAdmin ==
    (last.op = "handleAuth_role" /\ last.ok1) => IsAdmin(last.userId)



----------------------------------------------------------------------------
(* Interleavings: resolutions and session changes, the feed's two sources,  *)
(* overlapping decisions                                                    *)

\* C31: whenever the client has no session the view is loading or needs-auth;
\* a resolution still in flight at the sign-out never moves it elsewhere.
C31_NoSessionNoView ==
    \A c \in Clients : session[c] = NoUser => view[c] \in {"loading", "auth"}


\* C32: with several resolutions in flight, the view, profile and role are
\* those of the most recently started one: a resolution that a later-started
\* one has overtaken changes none of them when its lookups are served.
C32_LatestStartedWins ==
    [][\A c \in Clients : \A i \in 1..Len(resolutions[c]) :
          (/\ resolutions[c][i].overtaken
           /\ ~resolutions[c][i].failed
           /\ session[c] # NoUser
           /\ \/ determineView_role(c, i, "ok")
              \/ determineView_adminProfile(c, i, "ok")
              \/ determineView_request(c, i, "ok")
              \/ determineView_profile(c, i, "ok"))
          => /\ view'[c] = view[c]
             /\ userProfile'[c] = userProfile[c]
             /\ userRole'[c] = userRole[c]]_vars

\* the ids of a sequence of messages
Ids(ms) == {ms[j].id : j \in 1..Len(ms)}

\* C33: no message is lost from the feed of a chat that stays mounted: when
\* the served answer of the initial fetch is applied, every message already
\* displayed (its insert event was handled before the fetch returned) is
\* still displayed.
C33_FetchKeepsDisplayed ==
    [][\A c \in Clients : \A i \in 1..Len(chatTasks[c]) :
          (fetchMessages(c, i) /\ chatTasks[c][i].ok1 /\ chatTasks[c][i].live)
          => Ids(chat[c].messages) \subseteq Ids(chat'[c].messages)]_vars

\* C34: with each insert event delivered exactly once, no message id appears
\* more than once in the displayed sequence.
C34_NoDuplicateIds ==
    \A c \in Clients : Cardinality(Ids(chat[c].messages)) = Len(chat[c].messages)

\* C35: the decision workflow never removes or downgrades an admin
\* RoleAssignment: the served role step of an approve or a reject leaves every
\* admin an admin.
C35_AdminStaysAdmin ==
    [][\A c \in Clients : \A i \in 1..Len(tasks[c]) :
          handleDecision_role(c, i, "ok")
          => \A u \in Users : IsAdmin(u) => IsAdmin(u)']_vars

\* C36: with every store call served and no decision in flight, a user who
\* is not an admin and has an AccessRequest holds the member role exactly when
\* the request is approved, also after an approve and a reject of the same
\* request that overlapped.
C36_MemberIffApproved ==
    ~DecisionInFlight =>
        \A k \in 1..Len(access_requests) :
            LET u == access_requests[k].user_id
            IN  ~IsAdmin(u) => (MemberOnly(u) <=> access_requests[k].status = "approved")

\* C37: a user for whom no resolution found the admin role never sees
\* admin-home; where the store is not written to, the signed-in user of a
\* client at admin-home holds the admin role in the store.
C37_AdminHomeOnlyForAdmin ==
    \A c \in Clients :
        (view[c] = "admin" /\ session[c] # NoUser) => IsAdmin(session[c])

\* C38: when the session provider and the store answer every call, the view
\* eventually leaves loading, for every status value the table can hold.
C38_LeavesLoading ==
    \A c \in Clients : <>(view[c] # "loading")

\* C39: a message whose sender has no Profile row is shown with the same
\* identity whether it came with the bulk fetch or with an insert event: two
\* displayed messages of such a sender carry the same sender name.
C39_SameIdentityOnBothPaths ==
    \A c \in Clients :
        LET ms == chat[c].messages
        IN  \A j, k \in 1..Len(ms) :
                (/\ ms[j].id # ms[k].id
                 /\ ms[j].sender_id = ms[k].sender_id
                 /\ ProfilesOf(ms[j].sender_id) = {})
                => SenderName(ms[j]) = SenderName(ms[k])

\* C40: sending an image or an audio message leaves the draft of the text
\* composer unchanged: the served insert of a message that is not a text
\* does not touch newMessage.
C40_MediaSendKeepsDraft ==
    [][\A c \in Clients : \A i \in 1..Len(chatTasks[c]) :
          (/\ chatTasks[c][i].type \in {"image", "audio"}
           /\ handleSendMessage_insert(c, i, "ok"))
          => chat'[c].newMessage = chat[c].newMessage]_vars

============================================================================
